---- MODULE Spec2Model ----
(***************************************************************************)
(* Release orchestration of isy.healthcare: the deploy scripts as one      *)
(* state machine.  A behaviour is one run of one script on one host.       *)
(*   "release" : server_clone_and_deploy.sh, release-directory variant     *)
(*               (src/unnamed/part_002)                                    *)
(*   "partial" : server_clone_and_deploy.sh, build-first / partial update  *)
(*               variant (src/unnamed/part_001, lines 1606-1781)           *)
(*   "full"    : server_clone_and_deploy.sh, from-scratch variant          *)
(*               (src/unnamed/part_003)                                    *)
(*   "remote"  : production upload-and-build script (src/unnamed/part_004) *)
(*   "dev"     : local development script (src/unnamed/part_000)           *)
(* External commands (git, docker, curl, fallocate, ...) are inputs: each  *)
(* one succeeds or fails nondeterministically.  The bash scripts run under *)
(* `set -euo pipefail`: a failing command that is neither a condition nor  *)
(* guarded by `||` ends the run with a non-zero status.                    *)
(***************************************************************************)
EXTENDS Integers, Sequences, FiniteSets, TLC

\* ---------------------------------------------------------------- bounds
MaxHealthTimeout == 10
MaxTick == 3
MaxDiscards == 3
MaxRuns == 2
MaxChanges == 3
MaxCalls == 2
MaxToggles == 1
HealthTimeouts == 0..MaxHealthTimeout

\* ------------------------------------------------------ program constants
MinMemMB == 2000
SleepSeconds == 2
MaxTime == 5
DevProbes == 30

Scripts == {"release", "partial", "full", "remote", "dev"}
MemValues == {MinMemMB - 1, MinMemMB}
ProbeTimes == {0, MaxTime}
\* The final outcome of one probe request: no connection, no answer within
\* the per-request timeout, or the class of the final status (an interim 1xx
\* response is not an outcome, the client goes on to read the final one).
Responses == {"error", "timeout", "200", "204", "3xx", "4xx", "5xx"}
TicksPerSecond == 2
NoSwap == [file |-> FALSE, active |-> FALSE]
SwapStates == {NoSwap, [file |-> TRUE, active |-> FALSE],
               [file |-> TRUE, active |-> TRUE]}

VARIABLES
  script,          \* which script this run executes
  run,             \* the number of this run in a sequence of runs on the host
  pc,              \* position of the run in its script
  exitCode,        \* -1 while running, else the exit status
  trace,           \* the service/file steps the run has performed, in order
  \* ---- host: memory and swap
  MEM_MB,          \* MemTotal in MB
  swapFile,        \* /swapfile exists
  swapActive,      \* /swapfile is an active swap area
  swapWrites,      \* times the run allocated, formatted or overwrote /swapfile
  preSwap,         \* [file, active]: /swapfile before the run
  CREATED_SWAP,    \* 0/1 (createdSwap of the remote script)
  SWAPFILE_PATH,   \* "" or "/swapfile"
  swapOns,         \* successful swapon commands of the run
  swapReleases,    \* executions of the swap removal block
  \* ---- host: services and directories
  composeFound,    \* a docker-compose.yml of a previous deployment is found
  preRunning,      \* previous release's services were running at start
  oldRunning,      \* previous release's services are running
  oldStopped,      \* the run has stopped or removed the previous services
  newRunning,      \* the new release's services are running
  appDir,          \* "absent" | "old" | "mixed" | "new"
  releaseDir,      \* "none" | "present" | "removed"
  \* ---- health wait
  HEALTH_TIMEOUT,
  ELAPSED,
  waited,          \* wall-clock seconds since the current wait began
  probes,          \* probes made in the current wait
  okSeen,          \* a probe of the current wait succeeded
  waits,           \* health waits begun in this run
  healthy,         \* verdict of the last finished wait: "none"|"yes"|"no"
  \* ---- orchestration
  buildFailed,     \* a build attempt of this run exited non-zero
  buildOk,         \* a build attempt of this run exited zero
  promoted,        \* the release was copied into APP_DIR
  FALLBACK_FULL,
  fullRebuilds,    \* full rebuilds (down --rmi all, clean build, up) started
  \* ---- variables of the PowerShell scripts
  oldContainerId,  \* dev: a previous container was found ($null otherwise)
  buildSucceeded,  \* dev
  attempts,        \* dev: build attempts made
  i,               \* dev: counter of the health loop
  healthOk,        \* dev
  buildExit,       \* remote: $LASTEXITCODE of the build command chain, -1 unset
  \* ---- staging of release directories
  now,             \* the host clock, in ticks
  RELEASE_DIR,     \* the timestamp naming this run's release directory, -1 unset
  others,          \* names of the release directories staged by other runs
  \* ---- health probe
  resp,            \* what the last probe request came back with, "none" before
  \* ---- dependent services (database, reverse proxy)
  depsTouched,     \* the run issued a command that acts on them
  nginxConf,       \* content of the local nginx.conf ("none": no such file)
  nginxBackup,     \* content of the local nginx.conf.backup
  nginxAtStart,    \* content of nginx.conf when the script started
  dirIndex,        \* position of the foreach loop in $directories
  uploadFailed,    \* the upload step that aborted the run, or "none"
  mounted,         \* the pricelist page is on screen
  selectedCategory, searchTerm, selectedClinic, hideEmptyServices,
                   \* the filter state of the pricelist page
  services,        \* the list the page displays (setServices)
  loading,         \* the page's loading flag
  inflight,        \* /api/pricelists requests sent and not yet answered
  requests,        \* number of /api/pricelists requests sent so far
  okIds,           \* the requests that were answered with res.ok
  user,            \* the session user of the /api/patients caller
  patients,        \* the Patient collection
  calls,           \* number of /api/patients calls handled
  apiReq,          \* the last /api/patients request
  apiRes,          \* the answer to it
  expandedCategories,  \* the categories shown expanded on the pricelist page
  visibleColumns,  \* which price columns are checked
  toggles,         \* number of toggles made on the page
  exported         \* the last file an export produced

swapVars == <<MEM_MB, swapFile, swapActive, swapWrites, preSwap, CREATED_SWAP,
              SWAPFILE_PATH, swapOns, swapReleases>>
svcVars == <<composeFound, preRunning, oldRunning, oldStopped, newRunning>>
dirVars == <<appDir, releaseDir>>
healthVars == <<HEALTH_TIMEOUT, ELAPSED, waited, probes, okSeen, waits, healthy>>
orchVars == <<buildFailed, buildOk, promoted, FALLBACK_FULL, fullRebuilds>>
psVars == <<oldContainerId, buildSucceeded, attempts, i, healthOk, buildExit>>
stageVars == <<now, RELEASE_DIR, others>>
uploadVars == <<nginxConf, nginxBackup, nginxAtStart, dirIndex, uploadFailed>>
pageVars == <<mounted, selectedCategory, searchTerm, selectedClinic,
              hideEmptyServices, services, loading, inflight, requests, okIds>>
apiVars == <<user, patients, calls, apiReq, apiRes>>
exportVars == <<expandedCategories, visibleColumns, toggles, exported>>
webVars == <<pageVars, apiVars, exportVars>>
deployVars == <<script, run, pc, exitCode, trace, swapVars, svcVars, dirVars,
                healthVars, orchVars, psVars, stageVars, resp, depsTouched,
                uploadVars>>
vars == <<script, run, pc, exitCode, trace, swapVars, svcVars, dirVars, healthVars,
          orchVars, psVars, stageVars, resp, depsTouched, uploadVars, webVars>>

Emit(e) == trace' = Append(trace, e)

\* The run ends with status c (exit c, or a failing command under set -e).
Exit(c) == /\ pc' = "exit"
           /\ exitCode' = c

Goto(l) == /\ pc' = l
           /\ exitCode' = exitCode

FirstPc(s) == CASE s = "release" -> "r_check"
                [] s = "partial" -> "p_check"
                [] s = "full" -> "f_check"
                [] s = "remote" -> "u_backup"
                [] OTHER -> "d_check"

\* The state of the host and of the script at the start of a run.
DeployInit ==
  /\ script \in Scripts
  /\ run = 1
  /\ pc = FirstPc(script)
  /\ exitCode = -1
  /\ trace = <<>>
  /\ MEM_MB \in (IF script = "dev" THEN {MinMemMB} ELSE MemValues)
  /\ preSwap \in (IF script = "dev" THEN {NoSwap} ELSE SwapStates)
  /\ swapFile = preSwap.file
  /\ swapActive = preSwap.active
  /\ swapWrites = 0
  /\ CREATED_SWAP = 0
  /\ SWAPFILE_PATH = ""
  /\ swapOns = 0
  /\ swapReleases = 0
  /\ composeFound \in (IF script = "release" THEN BOOLEAN ELSE {TRUE})
  /\ preRunning \in BOOLEAN
  /\ oldRunning = preRunning
  /\ oldStopped = FALSE
  /\ newRunning = FALSE
  /\ appDir \in {"absent", "old"}
  /\ releaseDir = "none"
  /\ HEALTH_TIMEOUT \in (IF script \in {"release", "partial"}
                          THEN HealthTimeouts ELSE {0})
  /\ ELAPSED = 0
  /\ waited = 0
  /\ probes = 0
  /\ okSeen = FALSE
  /\ waits = 0
  /\ healthy = "none"
  /\ buildFailed = FALSE
  /\ buildOk = FALSE
  /\ promoted = FALSE
  /\ FALLBACK_FULL = 0
  /\ fullRebuilds = 0
  /\ oldContainerId = FALSE
  /\ buildSucceeded = FALSE
  /\ attempts = 0
  /\ i = 0
  /\ healthOk = FALSE
  /\ buildExit = -1
  /\ now = 0
  /\ RELEASE_DIR = -1
  /\ others = {}
  /\ resp = "none"
  /\ depsTouched = FALSE
  /\ nginxConf \in (IF script = "remote" THEN {"none", "orig"} ELSE {"none"})
  /\ nginxBackup \in (IF script = "remote" THEN {"none", "stale"} ELSE {"none"})
  /\ nginxAtStart = nginxConf
  /\ dirIndex = 0
  /\ uploadFailed = "none"

\* No deploy script is running: the state of the scripts stays as it is
\* while the web application is looked at.
NoDeploy ==
  /\ script = "none"
  /\ run = 1
  /\ pc = "none"
  /\ exitCode = -1
  /\ trace = <<>>
  /\ MEM_MB = MinMemMB
  /\ preSwap = NoSwap
  /\ swapFile = FALSE
  /\ swapActive = FALSE
  /\ swapWrites = 0
  /\ CREATED_SWAP = 0
  /\ SWAPFILE_PATH = ""
  /\ swapOns = 0
  /\ swapReleases = 0
  /\ composeFound = TRUE
  /\ preRunning = FALSE
  /\ oldRunning = FALSE
  /\ oldStopped = FALSE
  /\ newRunning = FALSE
  /\ appDir = "absent"
  /\ releaseDir = "none"
  /\ HEALTH_TIMEOUT = 0
  /\ ELAPSED = 0
  /\ waited = 0
  /\ probes = 0
  /\ okSeen = FALSE
  /\ waits = 0
  /\ healthy = "none"
  /\ buildFailed = FALSE
  /\ buildOk = FALSE
  /\ promoted = FALSE
  /\ FALLBACK_FULL = 0
  /\ fullRebuilds = 0
  /\ oldContainerId = FALSE
  /\ buildSucceeded = FALSE
  /\ attempts = 0
  /\ i = 0
  /\ healthOk = FALSE
  /\ buildExit = -1
  /\ now = 0
  /\ RELEASE_DIR = -1
  /\ others = {}
  /\ resp = "none"
  /\ depsTouched = FALSE
  /\ nginxConf = "none"
  /\ nginxBackup = "none"
  /\ nginxAtStart = "none"
  /\ dirIndex = 0
  /\ uploadFailed = "none"

\* The pricelist page is not on screen.
NoPage ==
  /\ mounted = FALSE
  /\ selectedCategory = "All"
  /\ searchTerm = ""
  /\ selectedClinic = ""
  /\ hideEmptyServices = FALSE
  /\ services = <<>>
  /\ loading = FALSE
  /\ inflight = {}
  /\ requests = 0
  /\ okIds = {}

\* ------------------------------------------------ /api/patients: data
NoClinic == "none"
Clinics == {"c1", "c2"}
Roles == {"Admin", "Doctor"}

\* text as the sequence of its characters
Ann == <<"A", "n", "n">>
Bob == <<"B", "o", "b">>
Lee == <<"L", "e", "e">>
Ray == <<"R", "a", "y">>
Empty == <<>>

\* session users: role, primaryClinic (may be undefined), assignedClinics
Users ==
  [role : Roles, primaryClinic : Clinics \cup {NoClinic},
   assignedClinics : SUBSET Clinics]

\* The collection the calls start from; id stands for createdAt.
SeedPatients ==
  { [id |-> 1, firstName |-> Ann, lastName |-> Lee, primaryClinic |-> "c1",
     visitedClinics |-> {"c1"}],
    [id |-> 2, firstName |-> Bob, lastName |-> Lee, primaryClinic |-> "c1",
     visitedClinics |-> {"c1", "c2"}],
    [id |-> 3, firstName |-> Ann, lastName |-> Ray, primaryClinic |-> "c2",
     visitedClinics |-> {"c2"}] }

NoRequest ==
  [op |-> "none", clinicId |-> "", search |-> Empty, page |-> 1, limit |-> 20,
   readable |-> TRUE, firstName |-> Empty, lastName |-> Empty,
   dateOfBirth |-> "", primaryClinic |-> NoClinic]

NoAnswer == [status |-> 0, data |-> <<>>, created |-> {}]

\* No call to /api/patients is looked at.
NoApi ==
  /\ user = [role |-> "Admin", primaryClinic |-> NoClinic,
             assignedClinics |-> {}]
  /\ patients = {}
  /\ calls = 0
  /\ apiReq = NoRequest
  /\ apiRes = NoAnswer

\* ------------------------------------------------ pricelist page: export
\* const categories
categories ==
  <<"All", "Consultation", "Procedure", "Laboratory", "Radiology", "Pharmacy",
    "Other">>

\* the keys of visibleColumns, in the order the exports test them
PriceColumns == <<"local", "localWithInsurance", "tourist", "touristWithInsurance">>

Range(f) == {f[k] : k \in DOMAIN f}

\* useState(new Set(categories.filter((c) => c !== "All")))
AllExpanded == Range(categories) \ {"All"}

\* useState({ local: true, localWithInsurance: true, ... })
AllVisible == [c \in Range(PriceColumns) |-> TRUE]

NoFile == [kind |-> "none", saved |-> FALSE, tables |-> <<>>]

\* The state of the expand/column controls when the page is first rendered.
NoExport ==
  /\ expandedCategories = AllExpanded
  /\ visibleColumns = AllVisible
  /\ toggles = 0
  /\ exported = NoFile

Init == DeployInit /\ NoPage /\ NoApi /\ NoExport

\* ===================================================================
\* Shared by the bash scripts
\* ===================================================================

\* command -v git / command -v docker: exit 1 when a tool is missing
ToolsOrExit(next) ==
  /\ \E installed \in BOOLEAN :
       IF installed THEN Goto(next) ELSE Exit(1)
  /\ UNCHANGED <<webVars, script, run, uploadVars, stageVars, resp, depsTouched, psVars, trace, swapVars, svcVars, dirVars, healthVars,
                 orchVars>>

\* `docker compose down ... || true`, `docker rm -f ... || true`: when the
\* command works the services are gone; its failure is swallowed.
StopAll(ok) ==
  /\ oldRunning' = IF ok THEN FALSE ELSE oldRunning
  /\ oldStopped' = (oldStopped \/ (ok /\ oldRunning))
  /\ newRunning' = IF ok THEN FALSE ELSE newRunning
  /\ UNCHANGED <<composeFound, preRunning>>

\* `sudo rm -rf "$RELEASE_DIR" || true`: the discard of the staged release;
\* a failing rm is swallowed and leaves the directory.
Discard(ok) ==
  releaseDir' = IF ok /\ releaseDir = "present" THEN "removed" ELSE releaseDir

\* if [ -d "$APP_DIR" ]; then sudo rm -rf "$APP_DIR"; fi; mkdir -p parent.
\* Under set -e a failing rm ends the run with the directory partly deleted.
RemoveAppDir(next) ==
  IF appDir = "absent"
    THEN /\ UNCHANGED <<appDir, trace>>
         /\ Goto(next)
    ELSE \E ok \in BOOLEAN :
           /\ Emit("rm_appdir")
           /\ IF ok
                THEN /\ appDir' = "absent"
                     /\ Goto(next)
                ELSE /\ appDir' = "mixed"
                     /\ Exit(1)

\* The label the swap provisioning block falls through to.
AfterSwap == IF script = "release" THEN "r_down" ELSE "p_prune"

\* SwapCheck without the test for an active /swapfile.
SwapCheck_Mut ==
  /\ script \in {"release", "partial"}
  /\ pc = "swap_check"
  /\ IF MEM_MB < MinMemMB
       THEN IF swapFile THEN Goto("swap_reuse") ELSE Goto("swap_alloc")
       ELSE Goto(AfterSwap)
  /\ UNCHANGED <<webVars, script, run, uploadVars, stageVars, resp, depsTouched, psVars, trace, swapVars, svcVars, dirVars, healthVars, orchVars>>

\* MEM_MB test and `swapon --show | grep -q '^/swapfile$'`
SwapCheck ==
  /\ script \in {"release", "partial"}
  /\ pc = "swap_check"
  /\ IF MEM_MB < MinMemMB
       THEN IF swapActive
              THEN Goto(AfterSwap)
              ELSE IF swapFile THEN Goto("swap_reuse") ELSE Goto("swap_alloc")
       ELSE Goto(AfterSwap)
  /\ UNCHANGED <<webVars, script, run, uploadVars, stageVars, resp, depsTouched, psVars, trace, swapVars, svcVars, dirVars, healthVars, orchVars>>

\* /swapfile exists but is not active: mkswap it and swapon it.
SwapReuse ==
  /\ script \in {"release", "partial"}
  /\ pc = "swap_reuse"
  /\ \E mk \in BOOLEAN, on \in BOOLEAN :
       IF mk
         THEN /\ swapWrites' = swapWrites + 1
              /\ IF on
                   THEN /\ swapActive' = TRUE
                        /\ SWAPFILE_PATH' = "/swapfile"
                        /\ CREATED_SWAP' = 1
                        /\ swapOns' = swapOns + 1
                        /\ Emit("swapon")
                        /\ Goto(AfterSwap)
                   ELSE /\ UNCHANGED <<swapActive, SWAPFILE_PATH, CREATED_SWAP,
                                       swapOns, trace>>
                        /\ Goto("swap_alloc")
         ELSE /\ UNCHANGED <<swapWrites, swapActive, SWAPFILE_PATH,
                             CREATED_SWAP, swapOns, trace>>
              /\ Goto("swap_alloc")
  /\ UNCHANGED <<webVars, script, run, uploadVars, stageVars, resp, depsTouched, psVars, MEM_MB, swapFile, preSwap, swapReleases, svcVars,
                 dirVars, healthVars, orchVars>>

\* SwapAlloc going on to mkswap after a dd that failed both times.
SwapAlloc_Mut ==
  /\ script \in {"release", "partial"}
  /\ pc = "swap_alloc"
  /\ \E fa \in BOOLEAN, dd \in BOOLEAN, partial \in BOOLEAN :
       IF fa
         THEN /\ swapFile' = TRUE
              /\ swapWrites' = swapWrites + 1
              /\ Emit("fallocate")
              /\ Goto("swap_format")
         ELSE IF dd
                THEN /\ swapFile' = TRUE
                     /\ swapWrites' = swapWrites + 1
                     /\ trace' = trace \o <<"fallocate_failed", "dd">>
                     /\ Goto("swap_format")
                ELSE /\ swapFile' = (swapFile \/ partial)
                     /\ swapWrites' = swapWrites + (IF swapFile \/ partial THEN 1 ELSE 0)
                     /\ trace' = trace \o <<"fallocate_failed", "dd_failed">>
                     /\ Goto("swap_format")
  /\ UNCHANGED <<webVars, script, run, uploadVars, stageVars, resp, depsTouched, psVars, MEM_MB, swapActive, preSwap, CREATED_SWAP,
                 SWAPFILE_PATH, swapOns, swapReleases, svcVars, dirVars,
                 healthVars, orchVars>>

\* fallocate first; dd (tried twice) only when fallocate failed.  A dd that
\* fails both times ends the run under set -e.
SwapAlloc ==
  /\ script \in {"release", "partial"}
  /\ pc = "swap_alloc"
  /\ \E fa \in BOOLEAN, dd \in BOOLEAN, partial \in BOOLEAN :
       IF fa
         THEN /\ swapFile' = TRUE
              /\ swapWrites' = swapWrites + 1
              /\ Emit("fallocate")
              /\ Goto("swap_format")
         ELSE IF dd
                THEN /\ swapFile' = TRUE
                     /\ swapWrites' = swapWrites + 1
                     /\ trace' = trace \o <<"fallocate_failed", "dd">>
                     /\ Goto("swap_format")
                ELSE /\ swapFile' = (swapFile \/ partial)
                     /\ swapWrites' = swapWrites + (IF swapFile \/ partial THEN 1 ELSE 0)
                     /\ trace' = trace \o <<"fallocate_failed", "dd_failed">>
                     /\ Exit(1)
  /\ UNCHANGED <<webVars, script, run, uploadVars, stageVars, resp, depsTouched, psVars, MEM_MB, swapActive, preSwap, CREATED_SWAP,
                 SWAPFILE_PATH, swapOns, swapReleases, svcVars, dirVars,
                 healthVars, orchVars>>

\* SwapFormat taking the swap for created once mkswap worked.
SwapFormat_Mut ==
  /\ script \in {"release", "partial"}
  /\ pc = "swap_format"
  /\ \E mk \in BOOLEAN, on \in BOOLEAN :
       IF mk
         THEN /\ swapActive' = (swapActive \/ on)
              /\ SWAPFILE_PATH' = "/swapfile"
              /\ CREATED_SWAP' = 1
              /\ swapOns' = swapOns + (IF on THEN 1 ELSE 0)
              /\ IF on THEN Emit("swapon") ELSE UNCHANGED trace
         ELSE UNCHANGED <<swapActive, SWAPFILE_PATH, CREATED_SWAP, swapOns, trace>>
  /\ Goto(AfterSwap)
  /\ UNCHANGED <<webVars, script, run, uploadVars, stageVars, resp, depsTouched, psVars, MEM_MB, swapFile, swapWrites, preSwap, swapReleases,
                 svcVars, dirVars, healthVars, orchVars>>

\* chmod || true; mkswap; swapon; CREATED_SWAP=1 only when both worked.
SwapFormat ==
  /\ script \in {"release", "partial"}
  /\ pc = "swap_format"
  /\ \E mk \in BOOLEAN, on \in BOOLEAN :
       IF mk /\ on
         THEN /\ swapActive' = TRUE
              /\ SWAPFILE_PATH' = "/swapfile"
              /\ CREATED_SWAP' = 1
              /\ swapOns' = swapOns + 1
              /\ Emit("swapon")
         ELSE UNCHANGED <<swapActive, SWAPFILE_PATH, CREATED_SWAP, swapOns, trace>>
  /\ Goto(AfterSwap)
  /\ UNCHANGED <<webVars, script, run, uploadVars, stageVars, resp, depsTouched, psVars, MEM_MB, swapFile, swapWrites, preSwap, swapReleases,
                 svcVars, dirVars, healthVars, orchVars>>

\* SwapRemove without the || true: a failing swapoff or rm ends the run
\* with its status under set -e.
SwapRemove_Mut ==
  /\ script \in {"release", "partial"}
  /\ pc = "swap_remove"
  /\ IF CREATED_SWAP = 1 /\ SWAPFILE_PATH # ""
       THEN \E off \in BOOLEAN, rm \in BOOLEAN :
              /\ swapActive' = IF off THEN FALSE ELSE swapActive
              /\ swapFile' = IF off /\ rm THEN FALSE ELSE swapFile
              /\ swapReleases' = swapReleases + 1
              /\ Emit("swapoff")
              /\ IF off /\ rm THEN Goto("done") ELSE Exit(1)
       ELSE /\ UNCHANGED <<swapActive, swapFile, swapReleases, trace>>
            /\ Goto("done")
  /\ UNCHANGED <<webVars, script, run, uploadVars, stageVars, resp, depsTouched, psVars, MEM_MB, swapWrites, preSwap, CREATED_SWAP,
                 SWAPFILE_PATH, swapOns, svcVars, dirVars, healthVars, orchVars>>

\* "Remove swap if created": swapoff || true; rm -f || true.
SwapRemove ==
  /\ script \in {"release", "partial"}
  /\ pc = "swap_remove"
  /\ IF CREATED_SWAP = 1 /\ SWAPFILE_PATH # ""
       THEN \E off \in BOOLEAN, rm \in BOOLEAN :
              /\ swapActive' = IF off THEN FALSE ELSE swapActive
              /\ swapFile' = IF rm THEN FALSE ELSE swapFile
              /\ swapReleases' = swapReleases + 1
              /\ Emit("swapoff")
       ELSE UNCHANGED <<swapActive, swapFile, swapReleases, trace>>
  /\ Goto("done")
  /\ UNCHANGED <<webVars, script, run, uploadVars, stageVars, resp, depsTouched, psVars, MEM_MB, swapWrites, preSwap, CREATED_SWAP,
                 SWAPFILE_PATH, swapOns, svcVars, dirVars, healthVars, orchVars>>

\* echo "Deploy complete." and the end of the script.
Done ==
  /\ script \in {"release", "partial", "full"}
  /\ pc = "done"
  /\ Exit(0)
  /\ UNCHANGED <<webVars, script, run, uploadVars, stageVars, resp, depsTouched, psVars, trace, swapVars, svcVars, dirVars, healthVars, orchVars>>

\* ------------------------------------------------------------ health wait
\* ELAPSED=0 before the until loop.
BeginWait ==
  /\ ELAPSED' = 0
  /\ waited' = 0
  /\ probes' = 0
  /\ okSeen' = FALSE
  /\ waits' = waits + 1
  /\ healthy' = "none"
  /\ UNCHANGED HEALTH_TIMEOUT

HealthyWithin_Mut(elapsed, timeout) == elapsed <= timeout

\* The verdict drawn from ELAPSED after the loop.
HealthyWithin(elapsed, timeout) == elapsed < timeout

\* The exit status of curl -sSf --max-time 5 (no -L) for a response, TRUE
\* for 0: -f fails the transfer on a status of 400 and above only; a
\* redirect is not followed and is a completed transfer.
CurlOk(r) == r \notin {"error", "timeout", "4xx", "5xx"}

\* $resp.StatusCode -eq 200 inside try { Invoke-WebRequest } catch { }
WebRequestOk(r) == r = "200"

\* Probe testing ELAPSED > HEALTH_TIMEOUT, one turn of the loop more.
Probe_Mut ==
  /\ script \in {"release", "partial"}
  /\ pc = "probe"
  /\ \E r \in Responses, d \in ProbeTimes :
     LET ok == CurlOk(r) IN
       /\ r = "timeout" => d = MaxTime
       /\ resp' = r
       /\ waited' = waited + d
       /\ probes' = probes + 1
       /\ okSeen' = ok
       /\ IF ok \/ ELAPSED > HEALTH_TIMEOUT
            THEN Goto("decide")
            ELSE Goto("sleep")
  /\ UNCHANGED <<webVars, script, run, uploadVars, stageVars, depsTouched, psVars, trace, swapVars, svcVars, dirVars, HEALTH_TIMEOUT,
                 ELAPSED, waits, healthy, orchVars>>

\* One evaluation of the until condition:
\*   curl -sSf --max-time 5 ... || [ $ELAPSED -ge $HEALTH_TIMEOUT ]
Probe ==
  /\ script \in {"release", "partial"}
  /\ pc = "probe"
  /\ \E r \in Responses, d \in ProbeTimes :
     LET ok == CurlOk(r) IN
       /\ r = "timeout" => d = MaxTime
       /\ resp' = r
       /\ waited' = waited + d
       /\ probes' = probes + 1
       /\ okSeen' = ok
       /\ IF ok \/ ELAPSED >= HEALTH_TIMEOUT
            THEN Goto("decide")
            ELSE Goto("sleep")
  /\ UNCHANGED <<webVars, script, run, uploadVars, stageVars, depsTouched, psVars, trace, swapVars, svcVars, dirVars, HEALTH_TIMEOUT,
                 ELAPSED, waits, healthy, orchVars>>

\* The loop body: sleep 2; ELAPSED=$((ELAPSED+2)).
Sleep ==
  /\ script \in {"release", "partial"}
  /\ pc = "sleep"
  /\ ELAPSED' = ELAPSED + SleepSeconds
  /\ waited' = waited + SleepSeconds
  /\ Goto("probe")
  /\ UNCHANGED <<webVars, script, run, uploadVars, stageVars, resp, depsTouched, psVars, trace, swapVars, svcVars, dirVars, HEALTH_TIMEOUT,
                 probes, okSeen, waits, healthy, orchVars>>

\* ===================================================================
\* release-directory deploy script
\* ===================================================================
R_Check ==
  /\ script = "release"
  /\ pc = "r_check"
  /\ ToolsOrExit("r_clean")

\* R_Clean leaving alone a deployment whose compose file is found.
R_Clean_Mut ==
  /\ script = "release"
  /\ pc = "r_clean"
  /\ IF composeFound
       THEN UNCHANGED <<svcVars, trace, depsTouched>>
       ELSE /\ \E ok \in BOOLEAN : StopAll(ok)
            /\ depsTouched' = TRUE
            /\ Emit("clean_rm")
  /\ Goto("r_stage")
  /\ UNCHANGED <<webVars, script, run, uploadVars, stageVars, resp, psVars, swapVars, dirVars, healthVars, orchVars>>

\* clean_existing_deploy: compose down --rmi all where a compose file is
\* found, else removal of the containers by name.
R_Clean ==
  /\ script = "release"
  /\ pc = "r_clean"
  /\ \E ok \in BOOLEAN :
       /\ StopAll(ok)
       /\ Emit(IF composeFound THEN "clean_down" ELSE "clean_rm")
  /\ Goto("r_stage")
  /\ depsTouched' = TRUE
  /\ UNCHANGED <<webVars, script, run, uploadVars, stageVars, resp, psVars, swapVars, dirVars, healthVars, orchVars>>

\* timestamp=$(date +%Y%m%d%H%M%S): the clock read to the second.
Timestamp(t) == t \div TicksPerSecond

\* mkdir -p RELEASES_ROOT; RELEASE_DIR=RELEASES_ROOT/timestamp;
\* mkdir -p RELEASE_DIR (which also succeeds on a directory that exists)
R_Stage ==
  /\ script = "release"
  /\ pc = "r_stage"
  /\ \E root \in BOOLEAN, ok \in BOOLEAN :
       IF root
         THEN /\ RELEASE_DIR' = Timestamp(now)
              /\ IF ok
                   THEN /\ releaseDir' = "present"
                        /\ UNCHANGED trace
                        /\ Goto("r_clone")
                   ELSE /\ UNCHANGED releaseDir
                        /\ Emit("stage_failed")
                        /\ Exit(1)
         ELSE /\ UNCHANGED <<RELEASE_DIR, releaseDir>>
              /\ Emit("stage_failed")
              /\ Exit(1)
  /\ UNCHANGED <<webVars, script, run, uploadVars, now, others, resp, depsTouched, psVars, swapVars, svcVars, appDir,
                 healthVars, orchVars>>

\* git clone into the release directory
R_Clone ==
  /\ script = "release"
  /\ pc = "r_clone"
  /\ \E ok \in BOOLEAN, rm \in BOOLEAN :
       IF ok
         THEN /\ UNCHANGED <<releaseDir, trace>>
              /\ Goto("swap_check")
         ELSE /\ Discard(rm)
              /\ trace' = trace \o <<"clone_failed", "discard">>
              /\ Exit(1)
  /\ UNCHANGED <<webVars, script, run, uploadVars, stageVars, resp, depsTouched, psVars, swapVars, svcVars, appDir, healthVars, orchVars>>

\* "Stopping any existing services": compose down --rmi all || true;
\* builder prune || true
R_Down ==
  /\ script = "release"
  /\ pc = "r_down"
  /\ \E ok \in BOOLEAN : StopAll(ok)
  /\ Emit("down_rmi")
  /\ fullRebuilds' = fullRebuilds + 1
  /\ Goto("r_build")
  /\ depsTouched' = TRUE
  /\ UNCHANGED <<webVars, script, run, uploadVars, stageVars, resp, psVars, swapVars, dirVars, healthVars, buildFailed, buildOk,
                 promoted, FALLBACK_FULL>>

\* docker compose build --no-cache --pull
R_Build ==
  /\ script = "release"
  /\ pc = "r_build"
  /\ \E ok \in BOOLEAN, rm \in BOOLEAN :
       IF ok
         THEN /\ buildOk' = TRUE
              /\ Emit("build")
              /\ UNCHANGED <<buildFailed, releaseDir>>
              /\ Goto("r_up")
         ELSE /\ buildFailed' = TRUE
              /\ Discard(rm)
              /\ trace' = trace \o <<"build_failed", "discard">>
              /\ UNCHANGED buildOk
              /\ Exit(1)
  /\ UNCHANGED <<webVars, script, run, uploadVars, stageVars, resp, depsTouched, psVars, swapVars, svcVars, appDir, healthVars, promoted,
                 FALLBACK_FULL, fullRebuilds>>

\* R_Up with the failure of compose up dropped (|| true): the script goes
\* on to the health wait.
R_Up_Mut ==
  /\ script = "release"
  /\ pc = "r_up"
  /\ \E ok \in BOOLEAN :
       /\ newRunning' = ok
       /\ Emit(IF ok THEN "up" ELSE "up_failed")
       /\ BeginWait
       /\ UNCHANGED releaseDir
       /\ Goto("probe")
  /\ depsTouched' = TRUE
  /\ UNCHANGED <<webVars, script, run, uploadVars, stageVars, resp, psVars, swapVars, composeFound, preRunning, oldRunning,
                 oldStopped, appDir, orchVars>>

\* docker compose up -d --force-recreate --renew-anon-volumes
R_Up ==
  /\ script = "release"
  /\ pc = "r_up"
  /\ \E ok \in BOOLEAN, rm \in BOOLEAN :
       IF ok
         THEN /\ newRunning' = TRUE
              /\ Emit("up")
              /\ BeginWait
              /\ UNCHANGED releaseDir
              /\ Goto("probe")
         ELSE /\ Discard(rm)
              /\ trace' = trace \o <<"up_failed", "discard">>
              /\ UNCHANGED <<newRunning, healthVars>>
              /\ Exit(1)
  /\ depsTouched' = TRUE
  /\ UNCHANGED <<webVars, script, run, uploadVars, stageVars, resp, psVars, swapVars, composeFound, preRunning, oldRunning,
                 oldStopped, appDir, orchVars>>

\* if [ $ELAPSED -lt $HEALTH_TIMEOUT ]
R_Decide ==
  /\ script = "release"
  /\ pc = "decide"
  /\ IF HealthyWithin(ELAPSED, HEALTH_TIMEOUT)
       THEN /\ healthy' = "yes"
            /\ Goto("r_promote")
       ELSE /\ healthy' = "no"
            /\ Goto("r_fail_logs")
  /\ UNCHANGED <<webVars, script, run, uploadVars, stageVars, resp, depsTouched, psVars, trace, swapVars, svcVars, dirVars, HEALTH_TIMEOUT,
                 ELAPSED, waited, probes, okSeen, waits, orchVars>>

\* mkdir -p APP_DIR, then cp -a starts overwriting the files of APP_DIR
R_Promote ==
  /\ script = "release"
  /\ pc = "r_promote"
  /\ \E ok \in BOOLEAN :
       IF ok
         THEN /\ appDir' = "mixed"
              /\ Emit("cp")
              /\ Goto("r_promote_cp")
         ELSE /\ UNCHANGED <<appDir, trace>>
              /\ Exit(1)
  /\ UNCHANGED <<webVars, script, run, uploadVars, stageVars, resp, depsTouched, psVars, swapVars, svcVars, releaseDir, healthVars, orchVars>>

\* cp -a "$RELEASE_DIR"/. "$APP_DIR"/ finishes or fails
R_PromoteCopy ==
  /\ script = "release"
  /\ pc = "r_promote_cp"
  /\ \E ok \in BOOLEAN :
       IF ok
         THEN /\ appDir' = "new"
              /\ promoted' = TRUE
              /\ Goto("r_promote_rm")
         ELSE /\ UNCHANGED <<appDir, promoted>>
              /\ Exit(1)
  /\ UNCHANGED <<webVars, script, run, uploadVars, stageVars, resp, depsTouched, psVars, trace, swapVars, svcVars, releaseDir, healthVars,
                 buildFailed, buildOk, FALLBACK_FULL, fullRebuilds>>

\* R_PromoteCleanup without the || true: a failing chown or rm ends the run
\* with its status under set -e.
R_PromoteCleanup_Mut ==
  /\ script = "release"
  /\ pc = "r_promote_rm"
  /\ \E own \in BOOLEAN, rm \in BOOLEAN :
       /\ Discard(own /\ rm)
       /\ trace' = trace \o (IF own THEN <<"discard">> ELSE <<"chown_failed">>)
       /\ IF own /\ rm THEN Goto("swap_remove") ELSE Exit(1)
  /\ UNCHANGED <<webVars, script, run, uploadVars, stageVars, resp, depsTouched, psVars, swapVars, svcVars, appDir, healthVars, orchVars>>

\* chown -R ... || true; rm -rf "$RELEASE_DIR" || true
R_PromoteCleanup ==
  /\ script = "release"
  /\ pc = "r_promote_rm"
  /\ \E own \in BOOLEAN, rm \in BOOLEAN :
       /\ Discard(rm)
       /\ trace' = trace \o (IF own THEN <<>> ELSE <<"chown_failed">>)
                         \o <<"discard">>
  /\ Goto("swap_remove")
  /\ UNCHANGED <<webVars, script, run, uploadVars, stageVars, resp, depsTouched, psVars, swapVars, svcVars, appDir, healthVars, orchVars>>

R_FailLogs_Mut ==
  /\ script = "release"
  /\ pc = "r_fail_logs"
  /\ \E rm \in BOOLEAN : Discard(rm)
  /\ Emit("discard")
  /\ Exit(1)
  /\ UNCHANGED <<webVars, script, run, uploadVars, stageVars, resp, depsTouched, psVars, swapVars, svcVars, appDir, healthVars, orchVars>>

\* docker compose logs --tail 200 || true
R_FailLogs ==
  /\ script = "release"
  /\ pc = "r_fail_logs"
  /\ Emit("logs")
  /\ Goto("r_fail_down")
  /\ UNCHANGED <<webVars, script, run, uploadVars, stageVars, resp, depsTouched, psVars, swapVars, svcVars, dirVars, healthVars, orchVars>>

\* docker compose down --remove-orphans || true
R_FailDown ==
  /\ script = "release"
  /\ pc = "r_fail_down"
  /\ \E ok \in BOOLEAN : StopAll(ok)
  /\ Emit("stop_failed")
  /\ Goto("r_fail_rm")
  /\ depsTouched' = TRUE
  /\ UNCHANGED <<webVars, script, run, uploadVars, stageVars, resp, psVars, swapVars, dirVars, healthVars, orchVars>>

\* rm -rf "$RELEASE_DIR" || true; exit 1
R_FailRm ==
  /\ script = "release"
  /\ pc = "r_fail_rm"
  /\ \E rm \in BOOLEAN : Discard(rm)
  /\ Emit("discard")
  /\ Exit(1)
  /\ UNCHANGED <<webVars, script, run, uploadVars, stageVars, resp, depsTouched, psVars, swapVars, svcVars, appDir, healthVars, orchVars>>

ReleaseNext ==
  \/ R_Check \/ R_Clean \/ R_Stage \/ R_Clone \/ R_Down \/ R_Build \/ R_Up
  \/ R_Decide \/ R_Promote \/ R_PromoteCopy \/ R_PromoteCleanup
  \/ R_FailLogs \/ R_FailDown \/ R_FailRm

\* ===================================================================
\* build-first / partial-update deploy script
\* ===================================================================
P_Check ==
  /\ script = "partial"
  /\ pc = "p_check"
  /\ ToolsOrExit("p_rmdir")

\* if [ -d "$APP_DIR" ]; then sudo rm -rf "$APP_DIR"; fi; mkdir -p parent
P_RemoveDir ==
  /\ script = "partial"
  /\ pc = "p_rmdir"
  /\ RemoveAppDir("p_clone")
  /\ UNCHANGED <<webVars, script, run, uploadVars, stageVars, resp, depsTouched, psVars, swapVars, svcVars, releaseDir, healthVars, orchVars>>

\* git clone ... "$APP_DIR"; nginx-ssl.conf; chown || true
P_Clone ==
  /\ script = "partial"
  /\ pc = "p_clone"
  /\ \E ok \in BOOLEAN :
       IF ok
         THEN /\ appDir' = "new"
              /\ UNCHANGED trace
              /\ Goto("swap_check")
         ELSE /\ UNCHANGED appDir
              /\ Emit("clone_failed")
              /\ Exit(1)
  /\ UNCHANGED <<webVars, script, run, uploadVars, stageVars, resp, depsTouched, psVars, swapVars, svcVars, releaseDir, healthVars,
                 orchVars>>

\* builder prune || true; docker compose build --no-cache --pull.  Under
\* set -e a failing build ends the run at that line: BUILD_EXIT=$? is only
\* reached with status 0.
P_Build ==
  /\ script = "partial"
  /\ pc = "p_prune"
  /\ \E ok \in BOOLEAN :
       IF ok
         THEN /\ buildOk' = TRUE
              /\ Emit("build")
              /\ UNCHANGED buildFailed
              /\ Goto("p_partial")
         ELSE /\ buildFailed' = TRUE
              /\ Emit("build_failed")
              /\ UNCHANGED buildOk
              /\ Exit(1)
  /\ UNCHANGED <<webVars, script, run, uploadVars, stageVars, resp, depsTouched, psVars, swapVars, svcVars, dirVars, healthVars, promoted,
                 FALLBACK_FULL, fullRebuilds>>

\* P_Partial waiting for the application whatever the recreate returned.
P_Partial_Mut ==
  /\ script = "partial"
  /\ pc = "p_partial"
  /\ \E ok \in BOOLEAN, gone \in BOOLEAN :
       /\ IF ok
            THEN /\ newRunning' = TRUE
                 /\ oldRunning' = FALSE
                 /\ oldStopped' = (oldStopped \/ oldRunning)
                 /\ Emit("up_partial")
            ELSE /\ oldRunning' = (oldRunning /\ ~gone)
                 /\ oldStopped' = (oldStopped \/ (oldRunning /\ gone))
                 /\ Emit("up_partial_failed")
                 /\ UNCHANGED newRunning
       /\ BeginWait
       /\ UNCHANGED FALLBACK_FULL
       /\ Goto("probe")
  /\ UNCHANGED <<webVars, script, run, uploadVars, stageVars, resp, depsTouched, psVars, swapVars, composeFound, preRunning, dirVars,
                 buildFailed, buildOk, promoted, fullRebuilds>>

\* P_Partial recreating the service without --no-deps.
P_Partial_MutDeps ==
  /\ script = "partial"
  /\ pc = "p_partial"
  /\ \E ok \in BOOLEAN, gone \in BOOLEAN :
       IF ok
         THEN /\ newRunning' = TRUE
              /\ oldRunning' = FALSE
              /\ oldStopped' = (oldStopped \/ oldRunning)
              /\ Emit("up_partial")
              /\ BeginWait
              /\ UNCHANGED FALLBACK_FULL
              /\ Goto("probe")
         ELSE /\ oldRunning' = (oldRunning /\ ~gone)
              /\ oldStopped' = (oldStopped \/ (oldRunning /\ gone))
              /\ Emit("up_partial_failed")
              /\ FALLBACK_FULL' = 1
              /\ UNCHANGED <<newRunning, healthVars>>
              /\ Goto("p_fallback")
  /\ depsTouched' = TRUE
  /\ UNCHANGED <<webVars, script, run, uploadVars, stageVars, resp, psVars, swapVars, composeFound, preRunning, dirVars,
                 buildFailed, buildOk, promoted, fullRebuilds>>

\* if sudo docker compose up -d --no-deps --force-recreate "$SERVICE_NAME"
P_Partial ==
  /\ script = "partial"
  /\ pc = "p_partial"
  /\ \E ok \in BOOLEAN, gone \in BOOLEAN :
       IF ok
         THEN /\ newRunning' = TRUE
              /\ oldRunning' = FALSE
              /\ oldStopped' = (oldStopped \/ oldRunning)
              /\ Emit("up_partial")
              /\ BeginWait
              /\ UNCHANGED FALLBACK_FULL
              /\ Goto("probe")
         ELSE /\ oldRunning' = (oldRunning /\ ~gone)
              /\ oldStopped' = (oldStopped \/ (oldRunning /\ gone))
              /\ Emit("up_partial_failed")
              /\ FALLBACK_FULL' = 1
              /\ UNCHANGED <<newRunning, healthVars>>
              /\ Goto("p_fallback")
  /\ UNCHANGED <<webVars, script, run, uploadVars, stageVars, resp, depsTouched, psVars, swapVars, composeFound, preRunning, dirVars,
                 buildFailed, buildOk, promoted, fullRebuilds>>

\* if [ $ELAPSED -lt $HEALTH_TIMEOUT ] ... else FALLBACK_FULL=1
P_Decide ==
  /\ script = "partial"
  /\ pc = "decide"
  /\ IF HealthyWithin(ELAPSED, HEALTH_TIMEOUT)
       THEN /\ healthy' = "yes"
            /\ UNCHANGED FALLBACK_FULL
       ELSE /\ healthy' = "no"
            /\ FALLBACK_FULL' = 1
  /\ Goto("p_fallback")
  /\ UNCHANGED <<webVars, script, run, uploadVars, stageVars, resp, depsTouched, psVars, trace, swapVars, svcVars, dirVars, HEALTH_TIMEOUT,
                 ELAPSED, waited, probes, okSeen, waits, buildFailed, buildOk,
                 promoted, fullRebuilds>>

\* P_Fallback rebuilding whatever FALLBACK_FULL holds.
P_Fallback_Mut ==
  /\ script = "partial"
  /\ pc = "p_fallback"
  /\ \E ok \in BOOLEAN : StopAll(ok)
  /\ Emit("down_rmi")
  /\ fullRebuilds' = fullRebuilds + 1
  /\ Goto("p_full_build")
  /\ depsTouched' = TRUE
  /\ UNCHANGED <<webVars, script, run, uploadVars, stageVars, resp, psVars, swapVars, dirVars, healthVars, buildFailed,
                 buildOk, promoted, FALLBACK_FULL>>

\* if [ "$FALLBACK_FULL" -eq 1 ]: compose down --rmi all || true; prune || true
P_Fallback ==
  /\ script = "partial"
  /\ pc = "p_fallback"
  /\ IF FALLBACK_FULL = 1
       THEN /\ \E ok \in BOOLEAN : StopAll(ok)
            /\ Emit("down_rmi")
            /\ fullRebuilds' = fullRebuilds + 1
            /\ depsTouched' = TRUE
            /\ Goto("p_full_build")
       ELSE /\ UNCHANGED <<svcVars, trace, fullRebuilds, depsTouched>>
            /\ Goto("swap_remove")
  /\ UNCHANGED <<webVars, script, run, uploadVars, stageVars, resp, psVars, swapVars, dirVars, healthVars, buildFailed,
                 buildOk, promoted, FALLBACK_FULL>>

\* the fallback's docker compose build --no-cache --pull (set -e)
P_FullBuild ==
  /\ script = "partial"
  /\ pc = "p_full_build"
  /\ \E ok \in BOOLEAN :
       IF ok
         THEN /\ Emit("build")
              /\ UNCHANGED buildFailed
              /\ Goto("p_full_up")
         ELSE /\ buildFailed' = TRUE
              /\ Emit("build_failed")
              /\ Exit(1)
  /\ UNCHANGED <<webVars, script, run, uploadVars, stageVars, resp, depsTouched, psVars, swapVars, svcVars, dirVars, healthVars, buildOk,
                 promoted, FALLBACK_FULL, fullRebuilds>>

\* the fallback's docker compose up -d --force-recreate (set -e)
P_FullUp ==
  /\ script = "partial"
  /\ pc = "p_full_up"
  /\ \E ok \in BOOLEAN :
       IF ok
         THEN /\ newRunning' = TRUE
              /\ Emit("up")
              /\ Goto("swap_remove")
         ELSE /\ UNCHANGED newRunning
              /\ Emit("up_failed")
              /\ Exit(1)
  /\ depsTouched' = TRUE
  /\ UNCHANGED <<webVars, script, run, uploadVars, stageVars, resp, psVars, swapVars, composeFound, preRunning, oldRunning,
                 oldStopped, dirVars, healthVars, orchVars>>

PartialNext ==
  \/ P_Check \/ P_RemoveDir \/ P_Clone \/ P_Build \/ P_Partial \/ P_Decide
  \/ P_Fallback \/ P_FullBuild \/ P_FullUp

\* ===================================================================
\* from-scratch deploy script
\* ===================================================================
F_Check ==
  /\ script = "full"
  /\ pc = "f_check"
  /\ ToolsOrExit("f_rmdir")

\* if [ -d "$APP_DIR" ]; then sudo rm -rf "$APP_DIR"; fi; mkdir -p parent
F_RemoveDir ==
  /\ script = "full"
  /\ pc = "f_rmdir"
  /\ RemoveAppDir("f_clone")
  /\ UNCHANGED <<webVars, script, run, uploadVars, stageVars, resp, depsTouched, psVars, swapVars, svcVars, releaseDir, healthVars, orchVars>>

\* git clone ... "$APP_DIR"; nginx-ssl.conf; chown || true
F_Clone ==
  /\ script = "full"
  /\ pc = "f_clone"
  /\ \E ok \in BOOLEAN :
       IF ok
         THEN /\ appDir' = "new"
              /\ UNCHANGED trace
              /\ Goto("f_swap")
         ELSE /\ UNCHANGED appDir
              /\ Emit("clone_failed")
              /\ Exit(1)
  /\ UNCHANGED <<webVars, script, run, uploadVars, stageVars, resp, depsTouched, psVars, swapVars, svcVars, releaseDir, healthVars,
                 orchVars>>

\* Low memory: fallocate || dd; chmod; mkswap; swapon; CREATED_SWAP=1, each
\* command under set -e and with no test for swap that is already there.
\* An active swap file is busy: allocating, formatting and activating it fail.
F_Swap ==
  /\ script = "full"
  /\ pc = "f_swap"
  /\ IF MEM_MB < MinMemMB
       THEN \E alloc \in BOOLEAN, mk \in BOOLEAN, on \in BOOLEAN :
              IF swapActive \/ ~alloc
                THEN /\ UNCHANGED <<swapFile, swapWrites, swapActive, swapOns,
                                    CREATED_SWAP>>
                     /\ Emit("dd_failed")
                     /\ Exit(1)
                ELSE /\ swapFile' = TRUE
                     /\ swapWrites' = swapWrites + 1
                     /\ IF mk /\ on
                          THEN /\ swapActive' = TRUE
                               /\ swapOns' = swapOns + 1
                               /\ CREATED_SWAP' = 1
                               /\ Emit("swapon")
                               /\ Goto("f_down")
                          ELSE /\ UNCHANGED <<swapActive, swapOns, CREATED_SWAP>>
                               /\ Emit("swapon_failed")
                               /\ Exit(1)
       ELSE /\ UNCHANGED <<swapFile, swapWrites, swapActive, swapOns,
                           CREATED_SWAP, trace>>
            /\ Goto("f_down")
  /\ UNCHANGED <<webVars, script, run, uploadVars, stageVars, resp, depsTouched, psVars, MEM_MB, preSwap, SWAPFILE_PATH, swapReleases,
                 svcVars, dirVars, healthVars, orchVars>>

\* compose down --remove-orphans --rmi all || true; builder prune || true
F_Down ==
  /\ script = "full"
  /\ pc = "f_down"
  /\ \E ok \in BOOLEAN : StopAll(ok)
  /\ Emit("down_rmi")
  /\ fullRebuilds' = fullRebuilds + 1
  /\ Goto("f_build")
  /\ depsTouched' = TRUE
  /\ UNCHANGED <<webVars, script, run, uploadVars, stageVars, resp, psVars, swapVars, dirVars, healthVars, buildFailed,
                 buildOk, promoted, FALLBACK_FULL>>

\* docker compose build --no-cache --pull (set -e)
F_Build ==
  /\ script = "full"
  /\ pc = "f_build"
  /\ \E ok \in BOOLEAN :
       IF ok
         THEN /\ buildOk' = TRUE
              /\ Emit("build")
              /\ UNCHANGED buildFailed
              /\ Goto("f_up")
         ELSE /\ buildFailed' = TRUE
              /\ Emit("build_failed")
              /\ UNCHANGED buildOk
              /\ Exit(1)
  /\ UNCHANGED <<webVars, script, run, uploadVars, stageVars, resp, depsTouched, psVars, swapVars, svcVars, dirVars, healthVars, promoted,
                 FALLBACK_FULL, fullRebuilds>>

\* docker compose up -d --force-recreate --renew-anon-volumes (set -e)
F_Up ==
  /\ script = "full"
  /\ pc = "f_up"
  /\ \E ok \in BOOLEAN :
       IF ok
         THEN /\ newRunning' = TRUE
              /\ Emit("up")
              /\ Goto("f_swap_remove")
         ELSE /\ UNCHANGED newRunning
              /\ Emit("up_failed")
              /\ Exit(1)
  /\ depsTouched' = TRUE
  /\ UNCHANGED <<webVars, script, run, uploadVars, stageVars, resp, psVars, swapVars, composeFound, preRunning, oldRunning,
                 oldStopped, dirVars, healthVars, orchVars>>

\* if CREATED_SWAP = 1: swapoff /swapfile || true; rm -f /swapfile || true
F_SwapRemove ==
  /\ script = "full"
  /\ pc = "f_swap_remove"
  /\ IF CREATED_SWAP = 1
       THEN \E off \in BOOLEAN, rm \in BOOLEAN :
              /\ swapActive' = IF off THEN FALSE ELSE swapActive
              /\ swapFile' = IF rm THEN FALSE ELSE swapFile
              /\ swapReleases' = swapReleases + 1
              /\ Emit("swapoff")
       ELSE UNCHANGED <<swapActive, swapFile, swapReleases, trace>>
  /\ Goto("done")
  /\ UNCHANGED <<webVars, script, run, uploadVars, stageVars, resp, depsTouched, psVars, MEM_MB, swapWrites, preSwap, CREATED_SWAP,
                 SWAPFILE_PATH, swapOns, svcVars, dirVars, healthVars, orchVars>>

FullNext ==
  \/ F_Check \/ F_RemoveDir \/ F_Clone \/ F_Swap \/ F_Down \/ F_Build \/ F_Up
  \/ F_SwapRemove

\* ===================================================================
\* production upload-and-build script (PowerShell, remote host over ssh)
\* ===================================================================

\* $directories: the directories uploaded one by one, in order.
Directories ==
  << [Name |-> "app",        Required |-> TRUE],
     [Name |-> "components", Required |-> TRUE],
     [Name |-> "lib",        Required |-> TRUE],
     [Name |-> "models",     Required |-> TRUE],
     [Name |-> "types",      Required |-> TRUE],
     [Name |-> "locales",    Required |-> FALSE],
     [Name |-> "public",     Required |-> FALSE],
     [Name |-> "mongo-init", Required |-> FALSE] >>

\* if (Test-Path nginx.conf) { Copy-Item nginx.conf nginx.conf.backup -Force }
\* if (Test-Path nginx-ssl.conf) { Copy-Item nginx-ssl.conf nginx.conf -Force }
U_Backup ==
  /\ script = "remote"
  /\ pc = "u_backup"
  /\ \E ssl \in BOOLEAN :
       /\ nginxBackup' = IF nginxConf # "none" THEN nginxConf ELSE nginxBackup
       /\ nginxConf' = IF ssl THEN "ssl" ELSE nginxConf
  /\ Goto("u_config")
  /\ UNCHANGED <<webVars, script, run, nginxAtStart, dirIndex, uploadFailed, trace, swapVars,
                 svcVars, dirVars, healthVars, orchVars, psVars, stageVars,
                 resp, depsTouched>>

\* if (Test-Path nginx.conf.backup) { Move-Item nginx.conf.backup nginx.conf -Force }
RestoreNginx ==
  IF nginxBackup # "none"
    THEN /\ nginxConf' = nginxBackup
         /\ nginxBackup' = "none"
    ELSE UNCHANGED <<nginxConf, nginxBackup>>

\* ssh mkdir -p (its status is not looked at), then scp of the configuration
\* files; a failed scp restores nginx.conf and exits 1.
U_Config ==
  /\ script = "remote"
  /\ pc = "u_config"
  /\ \E mkdir \in BOOLEAN, scp \in BOOLEAN :
       IF scp
         THEN /\ dirIndex' = 1
              /\ UNCHANGED <<nginxConf, nginxBackup, uploadFailed>>
              /\ Goto("u_dir")
         ELSE /\ RestoreNginx
              /\ uploadFailed' = "config"
              /\ UNCHANGED dirIndex
              /\ Exit(1)
  /\ UNCHANGED <<webVars, script, run, nginxAtStart, trace, swapVars, svcVars, dirVars,
                 healthVars, orchVars, psVars, stageVars, resp, depsTouched>>

\* U_Dir leaving the backup in place when a required directory is missing.
U_Dir_Mut ==
  /\ script = "remote"
  /\ pc = "u_dir"
  /\ IF dirIndex <= Len(Directories)
       THEN \E found \in BOOLEAN, scp \in BOOLEAN :
              IF Directories[dirIndex].Required /\ ~(found /\ scp)
                THEN /\ IF found THEN RestoreNginx
                                 ELSE UNCHANGED <<nginxConf, nginxBackup>>
                     /\ uploadFailed' = "required"
                     /\ UNCHANGED dirIndex
                     /\ Exit(1)
                ELSE /\ dirIndex' = dirIndex + 1
                     /\ UNCHANGED <<nginxConf, nginxBackup, uploadFailed>>
                     /\ Goto("u_dir")
       ELSE /\ UNCHANGED <<nginxConf, nginxBackup, uploadFailed, dirIndex>>
            /\ Goto("u_restore")
  /\ UNCHANGED <<webVars, script, run, nginxAtStart, trace, swapVars, svcVars, dirVars,
                 healthVars, orchVars, psVars, stageVars, resp, depsTouched>>

\* One turn of foreach ($dir in $directories): a directory that is found is
\* uploaded with scp -r; a required one that is missing or whose upload
\* fails restores nginx.conf and exits 1, an optional one is passed over.
U_Dir ==
  /\ script = "remote"
  /\ pc = "u_dir"
  /\ IF dirIndex <= Len(Directories)
       THEN \E found \in BOOLEAN, scp \in BOOLEAN :
              IF Directories[dirIndex].Required /\ ~(found /\ scp)
                THEN /\ RestoreNginx
                     /\ uploadFailed' = "required"
                     /\ UNCHANGED dirIndex
                     /\ Exit(1)
                ELSE /\ dirIndex' = dirIndex + 1
                     /\ UNCHANGED <<nginxConf, nginxBackup, uploadFailed>>
                     /\ Goto("u_dir")
       ELSE /\ UNCHANGED <<nginxConf, nginxBackup, uploadFailed, dirIndex>>
            /\ Goto("u_restore")
  /\ UNCHANGED <<webVars, script, run, nginxAtStart, trace, swapVars, svcVars, dirVars,
                 healthVars, orchVars, psVars, stageVars, resp, depsTouched>>

\* After the loop: nginx.conf.backup, if there is one, is moved back.
U_Restore ==
  /\ script = "remote"
  /\ pc = "u_restore"
  /\ RestoreNginx
  /\ Goto("v_swap")
  /\ UNCHANGED <<webVars, script, run, nginxAtStart, dirIndex, uploadFailed, trace, swapVars,
                 svcVars, dirVars, healthVars, orchVars, psVars, stageVars,
                 resp, depsTouched>>

\* Remote memory test and the one-line swap creation.  The line ends in
\* `echo SWAP_ON`, so $LASTEXITCODE is 0 whenever the ssh session worked and
\* $createdSwap becomes true whatever fallocate, mkswap and swapon did.
V_Swap ==
  /\ script = "remote"
  /\ pc = "v_swap"
  /\ IF MEM_MB < MinMemMB
       THEN \E ssh \in BOOLEAN, alloc \in BOOLEAN, mk \in BOOLEAN, on \in BOOLEAN :
              IF ssh
                THEN /\ CREATED_SWAP' = 1
                     /\ IF swapActive
                          THEN UNCHANGED <<swapFile, swapWrites, swapActive,
                                           swapOns, trace>>
                          ELSE /\ swapFile' = (swapFile \/ alloc)
                               /\ swapWrites' = swapWrites +
                                    (IF alloc \/ (swapFile /\ mk) THEN 1 ELSE 0)
                               /\ IF (swapFile \/ alloc) /\ mk /\ on
                                    THEN /\ swapActive' = TRUE
                                         /\ swapOns' = swapOns + 1
                                         /\ Emit("swapon")
                                    ELSE UNCHANGED <<swapActive, swapOns, trace>>
                ELSE UNCHANGED <<CREATED_SWAP, swapFile, swapWrites, swapActive,
                                 swapOns, trace>>
       ELSE UNCHANGED <<CREATED_SWAP, swapFile, swapWrites, swapActive, swapOns,
                        trace>>
  /\ Goto("v_build")
  /\ UNCHANGED <<webVars, script, run, uploadVars, stageVars, resp, depsTouched, MEM_MB, preSwap, SWAPFILE_PATH, swapReleases, svcVars,
                 dirVars, healthVars, orchVars, psVars>>

\* try { ssh "cd APP_DIR; down --rmi all; prune || true; build; up" }:
\* the commands are joined by `;`, so each runs whatever the one before it
\* did and $buildExit is the status of the last one, compose up.
V_Build ==
  /\ script = "remote"
  /\ pc = "v_build"
  /\ \E down \in BOOLEAN, build \in BOOLEAN, up \in BOOLEAN :
       /\ oldRunning' = IF down THEN FALSE ELSE oldRunning
       /\ oldStopped' = (oldStopped \/ (down /\ oldRunning))
       /\ newRunning' = up
       /\ buildOk' = build
       /\ buildFailed' = ~build
       /\ buildExit' = IF up THEN 0 ELSE 1
       /\ trace' = trace \o <<"down_rmi", IF build THEN "build" ELSE "build_failed",
                              IF up THEN "up" ELSE "up_failed">>
  /\ fullRebuilds' = fullRebuilds + 1
  /\ Goto("v_finally")
  /\ depsTouched' = TRUE
  /\ UNCHANGED <<webVars, script, run, uploadVars, stageVars, resp, swapVars, composeFound, preRunning, dirVars, healthVars,
                 promoted, FALLBACK_FULL, oldContainerId, buildSucceeded,
                 attempts, i, healthOk>>

\* finally { if ($createdSwap) { ssh "swapoff /swapfile || true; rm -f ..." } }
V_Finally ==
  /\ script = "remote"
  /\ pc = "v_finally"
  /\ IF CREATED_SWAP = 1
       THEN \E off \in BOOLEAN, rm \in BOOLEAN :
              /\ swapActive' = IF off THEN FALSE ELSE swapActive
              /\ swapFile' = IF rm THEN FALSE ELSE swapFile
              /\ swapReleases' = swapReleases + 1
              /\ Emit("swapoff")
       ELSE UNCHANGED <<swapActive, swapFile, swapReleases, trace>>
  /\ Goto("v_report")
  /\ UNCHANGED <<webVars, script, run, uploadVars, stageVars, resp, depsTouched, psVars, MEM_MB, swapWrites, preSwap, CREATED_SWAP,
                 SWAPFILE_PATH, swapOns, svcVars, dirVars, healthVars, orchVars>>

\* if ($buildExit -eq 0) {...} else {...}: messages only, then the script ends
V_Report ==
  /\ script = "remote"
  /\ pc = "v_report"
  /\ Emit(IF buildExit = 0 THEN "report_success" ELSE "report_failed")
  /\ Exit(0)
  /\ UNCHANGED <<webVars, script, run, uploadVars, stageVars, resp, depsTouched, psVars, swapVars, svcVars, dirVars, healthVars, orchVars>>

RemoteNext ==
  \/ U_Backup \/ U_Config \/ U_Dir \/ U_Restore
  \/ V_Swap \/ V_Build \/ V_Finally \/ V_Report

\* ===================================================================
\* local development script (PowerShell)
\* ===================================================================

\* docker info; nginx.conf / .env / docker-compose.dev.yml preparation
D_Check ==
  /\ script = "dev"
  /\ pc = "d_check"
  /\ \E running \in BOOLEAN :
       IF running THEN Goto("d_npm") ELSE Exit(1)
  /\ UNCHANGED <<webVars, script, run, uploadVars, stageVars, resp, depsTouched, psVars, trace, swapVars, svcVars, dirVars, healthVars,
                 orchVars>>

\* & npm run build; if ($LASTEXITCODE -ne 0) { exit 1 }
D_NpmBuild ==
  /\ script = "dev"
  /\ pc = "d_npm"
  /\ \E ok \in BOOLEAN :
       IF ok THEN Goto("d_detect") ELSE Exit(1)
  /\ UNCHANGED <<webVars, script, run, uploadVars, stageVars, resp, depsTouched, psVars, trace, swapVars, svcVars, dirVars, healthVars,
                 orchVars>>

\* docker ps -a --filter name=isy-healthcare-dev; docker stop $oldContainerId.
\* A running previous container is always listed; a stopped one may be.
D_Detect ==
  /\ script = "dev"
  /\ pc = "d_detect"
  /\ \E found \in BOOLEAN, ok \in BOOLEAN :
       /\ oldRunning => found
       /\ oldContainerId' = found
       /\ IF found
            THEN /\ StopAll(ok)
                 /\ Emit("stop_old")
            ELSE UNCHANGED <<svcVars, trace>>
  /\ Goto("d_build1")
  /\ UNCHANGED <<webVars, script, run, uploadVars, stageVars, resp, depsTouched, swapVars, dirVars, healthVars, orchVars,
                 buildSucceeded, attempts, i, healthOk, buildExit>>

\* Attempt 1: docker compose build (BuildKit, cache enabled)
D_Build1 ==
  /\ script = "dev"
  /\ pc = "d_build1"
  /\ \E ok \in BOOLEAN :
       /\ buildSucceeded' = ok
       /\ buildOk' = ok
       /\ buildFailed' = ~ok
       /\ Emit(IF ok THEN "build_cached" ELSE "build_cached_failed")
  /\ attempts' = attempts + 1
  /\ Goto("d_build2")
  /\ UNCHANGED <<webVars, script, run, uploadVars, stageVars, resp, depsTouched, swapVars, svcVars, dirVars, healthVars, promoted,
                 FALLBACK_FULL, fullRebuilds, oldContainerId, i, healthOk,
                 buildExit>>

\* D_Build2 retrying whatever the first attempt returned.
D_Build2_Mut ==
  /\ script = "dev"
  /\ pc = "d_build2"
  /\ \E ok \in BOOLEAN :
       /\ buildSucceeded' = ok
       /\ buildOk' = ok
       /\ trace' = trace \o <<"prune", IF ok THEN "build_nocache"
                                        ELSE "build_nocache_failed">>
  /\ attempts' = attempts + 1
  /\ UNCHANGED buildFailed
  /\ Goto("d_build_check")
  /\ UNCHANGED <<webVars, script, run, uploadVars, stageVars, resp, depsTouched, swapVars, svcVars, dirVars, healthVars, promoted,
                 FALLBACK_FULL, fullRebuilds, oldContainerId, i, healthOk,
                 buildExit>>

\* if (-not $buildSucceeded): builder prune; build --no-cache
D_Build2 ==
  /\ script = "dev"
  /\ pc = "d_build2"
  /\ IF ~buildSucceeded
       THEN /\ \E ok \in BOOLEAN :
                 /\ buildSucceeded' = ok
                 /\ buildOk' = ok
                 /\ trace' = trace \o <<"prune", IF ok THEN "build_nocache"
                                                  ELSE "build_nocache_failed">>
            /\ attempts' = attempts + 1
            /\ UNCHANGED buildFailed
       ELSE UNCHANGED <<buildSucceeded, buildOk, buildFailed, attempts, trace>>
  /\ Goto("d_build_check")
  /\ UNCHANGED <<webVars, script, run, uploadVars, stageVars, resp, depsTouched, swapVars, svcVars, dirVars, healthVars, promoted,
                 FALLBACK_FULL, fullRebuilds, oldContainerId, i, healthOk,
                 buildExit>>

\* docker start $oldContainerId | Out-Null: the restart of the previous
\* container, whose failure is not looked at.
StartOld(ok) ==
  /\ oldRunning' = IF oldContainerId /\ ok THEN TRUE ELSE oldRunning
  /\ UNCHANGED <<composeFound, preRunning, oldStopped, newRunning>>

\* if (-not $buildSucceeded) { docker start $oldContainerId; exit 1 }
D_BuildCheck ==
  /\ script = "dev"
  /\ pc = "d_build_check"
  /\ IF ~buildSucceeded
       THEN /\ \E ok \in BOOLEAN : StartOld(ok)
            /\ Emit("start_old")
            /\ Exit(1)
       ELSE /\ UNCHANGED <<svcVars, trace>>
            /\ Goto("d_up")
  /\ UNCHANGED <<webVars, script, run, uploadVars, stageVars, resp, depsTouched, psVars, swapVars, dirVars, healthVars, orchVars>>

\* docker compose up -d app; on failure docker start $oldContainerId; exit 1
D_Up ==
  /\ script = "dev"
  /\ pc = "d_up"
  /\ \E ok \in BOOLEAN, st \in BOOLEAN :
       IF ok
         THEN /\ newRunning' = TRUE
              /\ UNCHANGED <<composeFound, preRunning, oldRunning, oldStopped>>
              /\ Emit("up")
              /\ BeginWait
              /\ Goto("d_probe")
         ELSE /\ StartOld(st)
              /\ trace' = trace \o <<"up_failed", "start_old">>
              /\ UNCHANGED healthVars
              /\ Exit(1)
  /\ depsTouched' = TRUE
  /\ UNCHANGED <<webVars, script, run, uploadVars, stageVars, resp, psVars, swapVars, dirVars, orchVars>>

\* for ($i = 0; $i -lt 30; $i++): Invoke-WebRequest -TimeoutSec 5; on
\* StatusCode 200 healthOk and break, else Start-Sleep 2
D_Probe ==
  /\ script = "dev"
  /\ pc = "d_probe"
  /\ IF i < DevProbes
       THEN \E r \in Responses, d \in ProbeTimes :
            LET ok == WebRequestOk(r) IN
              /\ r = "timeout" => d = MaxTime
              /\ resp' = r
              /\ probes' = probes + 1
              /\ okSeen' = ok
              /\ healthOk' = ok
              /\ IF ok
                   THEN /\ waited' = waited + d
                        /\ UNCHANGED i
                        /\ Goto("d_result")
                   ELSE /\ waited' = waited + d + SleepSeconds
                        /\ i' = i + 1
                        /\ Goto("d_probe")
       ELSE /\ UNCHANGED <<probes, okSeen, healthOk, waited, i, resp>>
            /\ Goto("d_result")
  /\ UNCHANGED <<webVars, script, run, uploadVars, stageVars, depsTouched, trace, swapVars, svcVars, dirVars, HEALTH_TIMEOUT,
                 ELAPSED, waits, healthy, orchVars, oldContainerId,
                 buildSucceeded, attempts, buildExit>>

\* if ($healthOk) {...} else { logs; docker start $oldContainerId; exit 1 }
D_Result ==
  /\ script = "dev"
  /\ pc = "d_result"
  /\ IF healthOk
       THEN /\ healthy' = "yes"
            /\ UNCHANGED <<svcVars, trace>>
            /\ Exit(0)
       ELSE /\ healthy' = "no"
            /\ \E ok \in BOOLEAN : StartOld(ok)
            /\ trace' = trace \o <<"logs", "start_old">>
            /\ Exit(1)
  /\ UNCHANGED <<webVars, script, run, uploadVars, stageVars, resp, depsTouched, psVars, swapVars, dirVars, HEALTH_TIMEOUT, ELAPSED,
                 waited, probes, okSeen, waits, orchVars>>

DevNext ==
  \/ D_Check \/ D_NpmBuild \/ D_Detect \/ D_Build1 \/ D_Build2 \/ D_BuildCheck
  \/ D_Up \/ D_Probe \/ D_Result

SharedNext ==
  \/ SwapCheck \/ SwapReuse \/ SwapAlloc \/ SwapFormat \/ SwapRemove \/ Done
  \/ Probe \/ Sleep

\* ===================================================================
\* staging while the clock runs and other runs stage on the same host
\* ===================================================================
\* the host clock advances
Tick ==
  /\ now < MaxTick
  /\ now' = now + 1
  /\ UNCHANGED <<webVars, script, run, uploadVars, pc, exitCode, trace, swapVars, svcVars, dirVars,
                 healthVars, orchVars, psVars, RELEASE_DIR, others, resp,
                 depsTouched>>

\* another run of the script reaches its own
\* RELEASE_DIR="$RELEASES_ROOT/$timestamp"; mkdir -p "$RELEASE_DIR"
OtherStage ==
  /\ Timestamp(now) \notin others
  /\ others' = others \cup {Timestamp(now)}
  /\ UNCHANGED <<webVars, script, run, uploadVars, pc, exitCode, trace, swapVars, svcVars, dirVars,
                 healthVars, orchVars, psVars, RELEASE_DIR, now, resp,
                 depsTouched>>

StageInit == Init /\ script = "release"

StageNext ==
  \/ Tick \/ OtherStage
  \/ R_Check \/ R_Clean \/ R_Stage \/ R_Clone

StageSpec == StageInit /\ [][StageNext]_vars


\* ===================================================================
\* the discard command issued again on a release already discarded
\* ===================================================================
\* The discard steps the run has taken.
Discards == Len(SelectSeq(trace, LAMBDA e : e = "discard"))

\* the discard without -f and without || true: rm fails on a directory
\* that is not there and set -e ends the script with its status
DiscardAgain_Mut ==
  /\ script = "release"
  /\ pc = "exit"
  /\ Discards \in 1..(MaxDiscards - 1)
  /\ \E rm \in BOOLEAN :
       /\ Discard(rm)
       /\ exitCode' = IF rm /\ releaseDir = "present" THEN exitCode ELSE 1
  /\ Emit("discard")
  /\ UNCHANGED <<webVars, script, run, uploadVars, pc, stageVars, resp, depsTouched, psVars, swapVars, svcVars,
                 appDir, healthVars, orchVars>>

\* sudo rm -rf "$RELEASE_DIR" || true, once more on the same RELEASE_DIR:
\* -f makes rm succeed on a path that is absent and || true drops any
\* other failure.
DiscardAgain ==
  /\ script = "release"
  /\ pc = "exit"
  /\ Discards \in 1..(MaxDiscards - 1)
  /\ \E rm \in BOOLEAN : Discard(rm)
  /\ Emit("discard")
  /\ UNCHANGED <<webVars, script, run, uploadVars, pc, exitCode, stageVars, resp, depsTouched, psVars, swapVars,
                 svcVars, appDir, healthVars, orchVars>>

\* a run of the release-directory script with the shortest health wait
\* that still sleeps once
DiscardInit ==
  /\ Init
  /\ script = "release"
  /\ HEALTH_TIMEOUT = SleepSeconds

DiscardNext == ReleaseNext \/ SharedNext \/ DiscardAgain

DiscardSpec == DiscardInit /\ [][DiscardNext]_vars


\* ===================================================================
\* a sequence of runs of one script on the same host
\* ===================================================================
\* The script is started again after the run before it has exited: the
\* host keeps its swap, services and directories, the script's variables
\* start afresh (CREATED_SWAP=0, SWAPFILE_PATH="", FALLBACK_FULL=0).
NextRun ==
  /\ script \in {"release", "partial"}
  /\ pc = "exit"
  /\ run < MaxRuns
  /\ run' = run + 1
  /\ pc' = FirstPc(script)
  /\ exitCode' = -1
  /\ trace' = <<>>
  /\ preSwap' = [file |-> swapFile, active |-> swapActive]
  /\ swapWrites' = 0
  /\ CREATED_SWAP' = 0
  /\ SWAPFILE_PATH' = ""
  /\ swapOns' = 0
  /\ swapReleases' = 0
  /\ preRunning' = (oldRunning \/ newRunning)
  /\ oldRunning' = (oldRunning \/ newRunning)
  /\ oldStopped' = FALSE
  /\ newRunning' = FALSE
  /\ appDir' = IF appDir = "absent" THEN "absent" ELSE "old"
  /\ releaseDir' = "none"
  /\ ELAPSED' = 0
  /\ waited' = 0
  /\ probes' = 0
  /\ okSeen' = FALSE
  /\ waits' = 0
  /\ healthy' = "none"
  /\ buildFailed' = FALSE
  /\ buildOk' = FALSE
  /\ promoted' = FALSE
  /\ FALLBACK_FULL' = 0
  /\ fullRebuilds' = 0
  /\ RELEASE_DIR' = -1
  /\ resp' = "none"
  /\ depsTouched' = FALSE
  /\ UNCHANGED <<webVars, script, uploadVars, MEM_MB, swapFile, swapActive, composeFound,
                 HEALTH_TIMEOUT, psVars, now, others>>

\* a low-memory host with no swap file, the shortest health wait that
\* still sleeps once
RunsInit ==
  /\ Init
  /\ script \in {"release", "partial"}
  /\ MEM_MB < MinMemMB
  /\ preSwap = NoSwap
  /\ HEALTH_TIMEOUT = SleepSeconds

RunsNext == ReleaseNext \/ PartialNext \/ SharedNext \/ NextRun

RunsSpec == RunsInit /\ [][RunsNext]_vars


\* ===================================================================
\* pricelist page (React component PricelistsPage)
\* ===================================================================
Categories == {"All", "Consultation"}
SearchTerms == {"", "x"}
ClinicIds == {"", "c1"}

\* The list /api/pricelists returns for the query string built from the
\* filter values ("All", "" and "" add no parameter).
Listing(category, search, clinicId) ==
  [category |-> IF category # "All" THEN category ELSE "any",
   search   |-> IF search # "" THEN search ELSE "any",
   clinicId |-> IF clinicId # "" THEN clinicId ELSE "any"]

\* What setServices receives: data.services, without the empty services
\* when the hide-empty toggle was on in the render that sent the request.
Shown(req) ==
  [list |-> Listing(req.category, req.search, req.clinicId),
   withoutEmpty |-> req.hide]

\* fetchServices() called by a render with the given filter values:
\* setLoading(true) and the request is sent.
fetchServices(category, search, clinicId, hide) ==
  /\ requests' = requests + 1
  /\ inflight' = inflight \cup
       {[id |-> requests + 1, category |-> category, search |-> search,
         clinicId |-> clinicId, hide |-> hide]}
  /\ loading' = TRUE

\* The page is opened: the effect of the first render fetches with the
\* initial filter values.
Mount ==
  /\ ~mounted
  /\ mounted' = TRUE
  /\ fetchServices(selectedCategory, searchTerm, selectedClinic,
                   hideEmptyServices)
  /\ UNCHANGED <<deployVars, apiVars, exportVars, selectedCategory, searchTerm, selectedClinic,
                 hideEmptyServices, services, okIds>>

\* The user (or fetchClinics, for the clinic) changes one of the four
\* filter values; the effect with dependencies [selectedCategory,
\* searchTerm, selectedClinic, hideEmptyServices] runs fetchServices.
ChangeFilter ==
  /\ mounted
  /\ requests <= MaxChanges
  /\ \E c \in Categories, t \in SearchTerms, k \in ClinicIds, h \in BOOLEAN :
       /\ <<c, t, k, h>> # <<selectedCategory, searchTerm, selectedClinic,
                             hideEmptyServices>>
       /\ Cardinality({n \in 1..4 :
             <<c, t, k, h>>[n] # <<selectedCategory, searchTerm,
                                   selectedClinic, hideEmptyServices>>[n]}) = 1
       /\ selectedCategory' = c
       /\ searchTerm' = t
       /\ selectedClinic' = k
       /\ hideEmptyServices' = h
       /\ fetchServices(c, t, k, h)
  /\ UNCHANGED <<deployVars, apiVars, exportVars, mounted, services, okIds>>

\* A response arrives, in any order: if (res.ok) setServices(...);
\* finally setLoading(false).  A failed request leaves the list as it is.
Respond ==
  /\ \E req \in inflight, ok \in BOOLEAN :
       /\ inflight' = inflight \ {req}
       /\ IF ok
            THEN /\ services' = <<Shown(req)>>
                 /\ okIds' = okIds \cup {req.id}
            ELSE UNCHANGED <<services, okIds>>
  /\ loading' = FALSE
  /\ UNCHANGED <<deployVars, apiVars, exportVars, mounted, selectedCategory, searchTerm,
                 selectedClinic, hideEmptyServices, requests>>

PageNext == Mount \/ ChangeFilter \/ Respond

PageInit == NoDeploy /\ NoPage /\ NoApi /\ NoExport

PageSpec == PageInit /\ [][PageNext]_vars


\* ===================================================================
\* /api/patients route
\* ===================================================================
Lower(c) == CASE c = "A" -> "a" [] c = "B" -> "b" [] c = "L" -> "l"
              [] c = "R" -> "r" [] OTHER -> c

LowerAll(t) == [k \in 1..Len(t) |-> Lower(t[k])]

\* { $regex: search, $options: "i" } for a search term of plain letters:
\* the field holds the term somewhere, letter case ignored.
RegexI(field, search) ==
  \E k \in 0..(Len(field) - Len(search)) :
    SubSeq(LowerAll(field), k + 1, k + Len(search)) = LowerAll(search)

\* buildClinicFilter(user): an Admin sees every clinic, anyone else the
\* patients whose primary clinic is one of the user's clinics.
buildClinicFilter(u) ==
  IF u.role = "Admin" THEN Clinics \cup {NoClinic}
  ELSE ({u.primaryClinic} \cup u.assignedClinics) \ {NoClinic}

\* The $or key of the query: absent, then set when clinicId is given, then
\* set again (replacing what it held) when search is given.
QueryOr(clinicId, search) ==
  LET q0 == [kind |-> "none", clinicId |-> "", search |-> Empty]
      q1 == IF clinicId # ""
              THEN [kind |-> "clinic", clinicId |-> clinicId, search |-> Empty]
              ELSE q0
      q2 == IF search # Empty
              THEN [kind |-> "search", clinicId |-> "", search |-> search]
              ELSE q1
  IN q2

InClinic(p, clinicId) ==
  p.primaryClinic = clinicId \/ clinicId \in p.visitedClinics

MatchesSearch(p, search) ==
  RegexI(p.firstName, search) \/ RegexI(p.lastName, search)

\* A document satisfies the query: every top-level key holds.
Satisfies(p, access, or) ==
  /\ p.primaryClinic \in access
  /\ CASE or.kind = "clinic" -> InClinic(p, or.clinicId)
       [] or.kind = "search" -> MatchesSearch(p, or.search)
       [] OTHER -> TRUE

\* sort({ createdAt: -1 }): newest first
RECURSIVE SortDesc(_)
SortDesc(S) ==
  IF S = {} THEN <<>>
  ELSE LET newest == CHOOSE p \in S : \A q \in S : q.id <= p.id
       IN <<newest>> \o SortDesc(S \ {newest})

\* skip((page - 1) * limit).limit(limit)
PageOf(list, page, limit) ==
  SubSeq(list, (page - 1) * limit + 1,
         IF page * limit < Len(list) THEN page * limit ELSE Len(list))

\* GET /api/patients
GET ==
  /\ calls < MaxCalls
  /\ user \in Users
  /\ \E clinicId \in Clinics \cup {""}, search \in {Empty, <<"a", "n">>, <<"E">>},
        page \in 1..2, limit \in {1, 20} :
       LET found == {p \in patients :
                       Satisfies(p, buildClinicFilter(user),
                                 QueryOr(clinicId, search))}
       IN /\ apiReq' = [NoRequest EXCEPT !.op = "GET", !.clinicId = clinicId,
                          !.search = search, !.page = page, !.limit = limit]
          /\ apiRes' = [status |-> 200,
                        data |-> PageOf(SortDesc(found), page, limit),
                        created |-> {}]
  /\ calls' = calls + 1
  /\ UNCHANGED <<deployVars, pageVars, exportVars, user, patients>>

\* body.primaryClinic after "Set primary clinic from session if not provided"
TargetClinic(req, u) ==
  IF req.primaryClinic = NoClinic THEN u.primaryClinic ELSE req.primaryClinic

\* Verify user has access to the specified clinic
userHasAccess(req, u) ==
  \/ TargetClinic(req, u) = u.primaryClinic
  \/ TargetClinic(req, u) \in u.assignedClinics

\* Refusal without the access check.
Refusal_Mut(req, u) ==
  CASE ~req.readable -> 500
    [] req.firstName = Empty \/ req.lastName = Empty
         \/ req.dateOfBirth = "" -> 400
    [] TargetClinic(req, u) = NoClinic -> 500
    [] OTHER -> 0

\* The status the handler answers with before it reaches Patient.create,
\* or 0 when it reaches it.  A body that req.json() cannot read, or is not
\* an object, throws inside the try, and so does toString() of a primary
\* clinic that neither the body nor the session has: the catch block
\* answers 500.
Refusal(req, u) ==
  CASE ~req.readable -> 500
    [] req.firstName = Empty \/ req.lastName = Empty
         \/ req.dateOfBirth = "" -> 400
    [] TargetClinic(req, u) = NoClinic -> 500
    [] ~userHasAccess(req, u) /\ u.role # "Admin" -> 403
    [] OTHER -> 0

\* POST /api/patients
POST ==
  /\ calls < MaxCalls
  /\ user \in Users
  /\ \E readable \in BOOLEAN, firstName \in {Empty, Ann}, lastName \in {Empty, Ray},
        dateOfBirth \in {"", "2000-01-01"}, primaryClinic \in Clinics \cup {NoClinic},
        saved \in {201, 400, 409, 500} :
       LET req == [NoRequest EXCEPT !.op = "POST", !.readable = readable,
                     !.firstName = IF readable THEN firstName ELSE Empty,
                     !.lastName = IF readable THEN lastName ELSE Empty,
                     !.dateOfBirth = IF readable THEN dateOfBirth ELSE "",
                     !.primaryClinic = IF readable THEN primaryClinic
                                       ELSE NoClinic]
           status == IF Refusal(req, user) # 0 THEN Refusal(req, user)
                     ELSE saved
           patient == [id |-> Cardinality(patients) + 1,
                       firstName |-> req.firstName,
                       lastName |-> req.lastName,
                       primaryClinic |-> TargetClinic(req, user),
                       visitedClinics |-> {TargetClinic(req, user)}]
       IN /\ apiReq' = req
          /\ IF status = 201
               THEN /\ patients' = patients \cup {patient}
                    /\ apiRes' = [status |-> 201, data |-> <<patient>>,
                                  created |-> {patient.id}]
               ELSE /\ UNCHANGED patients
                    /\ apiRes' = [status |-> status, data |-> <<>>,
                                  created |-> {}]
  /\ calls' = calls + 1
  /\ UNCHANGED <<deployVars, pageVars, exportVars, user>>

ApiInit ==
  /\ NoDeploy
  /\ NoPage
  /\ NoExport
  /\ user \in Users
  /\ patients = SeedPatients
  /\ calls = 0
  /\ apiReq = NoRequest
  /\ apiRes = NoAnswer

ApiNext == GET \/ POST

ApiSpec == ApiInit /\ [][ApiNext]_vars


\* ===================================================================
\* pricelist page: expand/collapse, column boxes, PDF and Excel export
\* ===================================================================
Catalogue ==
  << [serviceId |-> "SVC1", serviceName |-> "Visit", category |-> "Consultation",
      pricing |-> [local |-> 100, localWithInsurance |-> 80, tourist |-> 200,
                   touristWithInsurance |-> 0],
      isActive |-> TRUE],
     [serviceId |-> "SVC2", serviceName |-> "Blood test", category |-> "Laboratory",
      pricing |-> [local |-> 50, localWithInsurance |-> 0, tourist |-> 0,
                   touristWithInsurance |-> 0],
      isActive |-> FALSE],
     [serviceId |-> "SVC3", serviceName |-> "Follow-up", category |-> "Consultation",
      pricing |-> [local |-> 0, localWithInsurance |-> 0, tourist |-> 0,
                   touristWithInsurance |-> 0],
      isActive |-> TRUE] >>

\* the categories of a list, each once, in the order they first occur
RECURSIVE CategoriesOf(_)
CategoriesOf(list) ==
  IF list = <<>> THEN <<>>
  ELSE LET rest == CategoriesOf(SubSeq(list, 1, Len(list) - 1))
           c == list[Len(list)].category
       IN IF c \in Range(rest) THEN rest ELSE Append(rest, c)

\* services.reduce(...): the services of each category, in list order;
\* Object.entries gives the categories in the order they were inserted.
groupedServices ==
  LET cats == CategoriesOf(services)
  IN [k \in 1..Len(cats) |->
        [category |-> cats[k],
         services |-> SelectSeq(services,
                                LAMBDA sv : sv.category = cats[k])]]

\* toggleCategory(category), offered for each category on display
toggleCategory ==
  /\ toggles < MaxToggles
  /\ \E k \in DOMAIN groupedServices :
       LET category == groupedServices[k].category
       IN expandedCategories' =
            IF category \in expandedCategories
              THEN expandedCategories \ {category}
              ELSE expandedCategories \cup {category}
  /\ toggles' = toggles + 1
  /\ UNCHANGED <<deployVars, pageVars, apiVars, visibleColumns, exported>>

\* toggleAllCategories(expand)
toggleAllCategories ==
  /\ toggles < MaxToggles
  /\ \E expand \in BOOLEAN :
       expandedCategories' = IF expand THEN AllExpanded ELSE {}
  /\ toggles' = toggles + 1
  /\ UNCHANGED <<deployVars, pageVars, apiVars, visibleColumns, exported>>

\* toggleColumn(column)
toggleColumn ==
  /\ toggles < MaxToggles
  /\ \E column \in Range(PriceColumns) :
       visibleColumns' = [visibleColumns EXCEPT ![column] = ~visibleColumns[column]]
  /\ toggles' = toggles + 1
  /\ UNCHANGED <<deployVars, pageVars, apiVars, expandedCategories, exported>>

\* the column titles of the PDF tables
PdfLabel(column) ==
  CASE column = "local" -> "Local"
    [] column = "localWithInsurance" -> "Local + Ins"
    [] column = "tourist" -> "Tourist"
    [] OTHER -> "Tourist + Ins"

\* the column titles of the Excel sheets
ExcelLabel(column) ==
  CASE column = "local" -> "Local"
    [] column = "localWithInsurance" -> "Local + Insurance"
    [] column = "tourist" -> "Tourist"
    [] OTHER -> "Tourist + Insurance"

\* the column title in a file of the given kind
Label(kind, column) ==
  IF kind = "pdf" THEN PdfLabel(column) ELSE ExcelLabel(column)

\* the price columns that pass the if (visibleColumns.X) tests, in order
CheckedColumns == SelectSeq(PriceColumns, LAMBDA c : visibleColumns[c])

\* ExportedGroups taking every category on display.
ExportedGroups_Mut == groupedServices

\* if (expandedCategories.has(category)) inside the forEach
ExportedGroups ==
  SelectSeq(groupedServices, LAMBDA g : g.category \in expandedCategories)

\* One table (PDF) or sheet (Excel): titles and one row per service of the
\* category, with a price cell for each checked column.
Table(g, kind) ==
  [category |-> g.category,
   headers |-> <<"Service ID", "Service Name">>
               \o [k \in 1..Len(CheckedColumns) |->
                     Label(kind, CheckedColumns[k])]
               \o <<"Status">>,
   rows |-> [r \in 1..Len(g.services) |->
               [serviceId |-> g.services[r].serviceId,
                serviceName |-> g.services[r].serviceName,
                prices |-> [k \in 1..Len(CheckedColumns) |->
                              [column |-> CheckedColumns[k],
                               amount |-> g.services[r].pricing[CheckedColumns[k]]]],
                status |-> IF g.services[r].isActive THEN "Active"
                           ELSE "Inactive"]]]

\* exportToPDF: a failed import of jspdf ends in the alert, else the
\* document is saved with one table per expanded category.
exportToPDF ==
  /\ \E lib \in BOOLEAN :
       exported' =
         IF lib
           THEN [kind |-> "pdf", saved |-> TRUE,
                 tables |-> [k \in 1..Len(ExportedGroups) |->
                               Table(ExportedGroups[k], "pdf")]]
           ELSE [kind |-> "pdf", saved |-> FALSE, tables |-> <<>>]
  /\ UNCHANGED <<deployVars, pageVars, apiVars, expandedCategories,
                 visibleColumns, toggles>>

\* exportToExcel: one sheet per expanded category; XLSX.writeFile of a
\* workbook without a sheet throws, which ends in the alert like a failed
\* import.
exportToExcel ==
  /\ \E lib \in BOOLEAN :
       exported' =
         IF lib /\ ExportedGroups # <<>>
           THEN [kind |-> "excel", saved |-> TRUE,
                 tables |-> [k \in 1..Len(ExportedGroups) |->
                               Table(ExportedGroups[k], "excel")]]
           ELSE [kind |-> "excel", saved |-> FALSE, tables |-> <<>>]
  /\ UNCHANGED <<deployVars, pageVars, apiVars, expandedCategories,
                 visibleColumns, toggles>>

\* The page with a list loaded and the controls in any position.
ExportInit ==
  /\ NoDeploy
  /\ NoApi
  /\ mounted = TRUE
  /\ selectedCategory = "All"
  /\ searchTerm = ""
  /\ selectedClinic = ""
  /\ hideEmptyServices = FALSE
  /\ services \in {Catalogue, SubSeq(Catalogue, 2, 2)}
  /\ loading = FALSE
  /\ inflight = {}
  /\ requests = 1
  /\ okIds = {1}
  /\ expandedCategories \in SUBSET AllExpanded
  /\ visibleColumns \in [Range(PriceColumns) -> BOOLEAN]
  /\ toggles = 0
  /\ exported = NoFile

ExportNext ==
  \/ toggleCategory \/ toggleAllCategories \/ toggleColumn
  \/ exportToPDF \/ exportToExcel

ExportSpec == ExportInit /\ [][ExportNext]_vars


Next ==
  \/ ReleaseNext \/ PartialNext \/ FullNext \/ RemoteNext \/ DevNext
  \/ SharedNext

Spec == Init /\ [][Next]_vars

\* ===================================================================
\* Properties
\* ===================================================================
Exited == pc = "exit"

\* The run ended reporting a completed deploy ("Deploy complete." of the
\* bash scripts, "Deployment completed successfully" of the remote script).
ReportsSuccess ==
  /\ Exited
  /\ exitCode = 0
  /\ script = "remote" => buildExit = 0

\* The run has performed step e.
Did(e) == \E k \in 1..Len(trace) : trace[k] = e

\* Step a was performed and every b performed comes after the first a.
Before(a, b) ==
  \E k \in 1..Len(trace) :
    /\ trace[k] = a
    /\ \A j \in 1..Len(trace) : trace[j] = b => k < j

\* The last n steps of the run.
LastSteps(n) ==
  IF Len(trace) < n THEN <<>> ELSE SubSeq(trace, Len(trace) - n + 1, Len(trace))

\* C1: in the release-directory script the copy of the staged release into
\* APP_DIR starts only after a probe of this run's health wait succeeded.
C1_PromoteOnlyAfterHealthyProbe ==
  (script = "release" /\ (Did("cp") \/ promoted \/ appDir \in {"mixed", "new"}))
    => (okSeen /\ waits = 1 /\ healthy = "yes")

C1_Witness ==
  /\ script = "release"
  /\ Exited
  /\ exitCode = 0
  /\ promoted
  /\ okSeen
  /\ probes > 1

\* C2: when the build has failed with every attempt exhausted and the run of
\* the release-directory script has exited, the release that was running at
\* the start is still running, was never stopped and its directory was never
\* removed.
C2_BuildFailureLeavesOldUntouched ==
  (/\ script = "release"
   /\ Exited
   /\ buildFailed
   /\ ~buildOk
   /\ preRunning)
    => (oldRunning /\ ~oldStopped /\ ~Did("rm_appdir"))

\* C3: a run that activated swap has executed the swap removal exactly once
\* by the time it exits, on every exit path.
C3_SwapReleasedOnEveryExit ==
  (Exited /\ swapOns > 0) => swapReleases = 1

\* C4: swap that was active before the run is never deactivated, rewritten or
\* deleted by the run.
C4_PreexistingSwapUntouched ==
  preSwap.active => (swapFile /\ swapActive /\ swapWrites = 0)

\* C5: a health wait of the release-directory script with timeout T > 0 in
\* which no probe succeeded ends after at
\* most T plus one poll interval of wall-clock time, probe time included.
C5_WaitBoundedByTimeout ==
  (/\ script = "release"
   /\ HEALTH_TIMEOUT > 0
   /\ healthy = "no"
   /\ ~okSeen)
    => waited <= HEALTH_TIMEOUT + SleepSeconds

\* C6: the verdict of a finished health wait is healthy exactly when a probe
\* of that wait succeeded, the last probe before the timeout included.
C6_HealthyIffProbeSucceeded ==
  (script \in {"release", "partial"} /\ HEALTH_TIMEOUT > 0 /\ healthy # "none")
    => ((healthy = "yes") <=> okSeen)

\* C7: when the partial update command succeeded and a probe of the partial
\* health wait succeeded, the run never starts a full rebuild and ends in
\* success.
C7_HealthyPartialNeverRebuilds ==
  (script = "partial" /\ HEALTH_TIMEOUT > 0 /\ Did("up_partial") /\ okSeen)
    => (/\ FALLBACK_FULL = 0
        /\ fullRebuilds = 0
        /\ ~Did("down_rmi")
        /\ (Exited => exitCode = 0))

\* C8: a run of the partial-update or from-scratch script that performed a
\* full rebuild reports success only if a health wait run after the
\* rebuild's services were started observed a healthy probe.
C8_FullRebuildHealthChecked ==
  (script \in {"partial", "full"} /\ ReportsSuccess /\ fullRebuilds > 0)
    => (healthy = "yes" /\ okSeen /\ Before("down_rmi", "up"))

\* C9: when a previous release was running at the start of a run of the
\* release-directory script and the new release failed (build, service
\* start or health check), some release's application service is running
\* when the run exits.
C9_NeverNothingRunning ==
  (/\ script = "release"
   /\ Exited
   /\ exitCode # 0
   /\ preRunning
   /\ (buildFailed \/ Did("up_failed") \/ healthy = "no"))
    => (oldRunning \/ newRunning)

BuildSteps ==
  SelectSeq(trace, LAMBDA e : e \in {"build_cached", "build_cached_failed",
                                     "prune", "build_nocache",
                                     "build_nocache_failed"})

\* C11: a run of the dev script makes at most two build attempts; the first
\* is cache-enabled, the second runs only after the first exited non-zero,
\* follows a purge of the build cache and is a no-cache build; nothing is
\* attempted after a success, and when both fail the run ends non-zero
\* without having started the new service.
C11_AtMostTwoOrderedAttempts ==
  script = "dev" =>
    /\ attempts <= 2
    /\ BuildSteps \in {<<>>,
                       <<"build_cached">>,
                       <<"build_cached_failed">>,
                       <<"build_cached_failed", "prune", "build_nocache">>,
                       <<"build_cached_failed", "prune", "build_nocache_failed">>}
    /\ Did("build_nocache_failed")
         => (/\ pc \in {"d_build_check", "exit"}
             /\ ~newRunning
             /\ ~Did("up") /\ ~Did("up_failed")
             /\ Exited => exitCode # 0)

C11_Witness ==
  /\ script = "dev"
  /\ Exited
  /\ attempts = 2
  /\ Did("build_nocache_failed")
  /\ exitCode = 1

\* C12: in the remote and release-directory scripts compose up is never
\* executed after a build that exited non-zero, unless a later build of the
\* same run succeeded.
C12_NoUpAfterFailedBuild ==
  script \in {"remote", "release"} =>
    \A k \in 1..Len(trace) :
      trace[k] \in {"up", "up_failed"} =>
        \A j \in 1..(k - 1) :
          trace[j] = "build_failed" =>
            \E m \in (j + 1)..(k - 1) : trace[m] = "build"

\* C13: in the release-directory script every staged release that was not
\* promoted has been discarded when the run exits, whichever step failed.
C13_UnpromotedReleaseDiscarded ==
  (/\ script = "release"
   /\ Exited
   /\ releaseDir # "none"
   /\ ~promoted
   /\ appDir # "mixed")
    => Did("discard")

\* C14: the promotion is atomic: when a run of the release-directory script
\* has ended, APP_DIR holds either the previous release or the new one,
\* never files of both, also when the promotion was cut short.
C14_PromotionAtomic ==
  (script = "release" /\ Exited) => appDir # "mixed"

\* C15: the directory of the previous release is deleted only once the new
\* release has been built, found healthy and promoted.
C15_OldDirRemovedOnlyAfterPromotion ==
  Did("rm_appdir") => (buildOk /\ healthy = "yes" /\ appDir = "new")

\* C16: when staging fails (the release directory cannot be created or the
\* clone fails) the run exits non-zero having changed nothing: the services
\* that were running still run and the files of APP_DIR are as they were.
C16_StagingFailureChangesNothing ==
  (/\ script \in {"release", "partial"}
   /\ Exited
   /\ (Did("stage_failed") \/ Did("clone_failed")))
    => (/\ exitCode # 0
        /\ oldRunning = preRunning
        /\ ~oldStopped
        /\ ~Did("rm_appdir"))

\* The partial update (compose up --no-deps --force-recreate) was attempted.
PartialTried == Did("up_partial") \/ Did("up_partial_failed")

StepFailed ==
  \/ Did("stage_failed")
  \/ Did("clone_failed")
  \/ Did("build_failed")
  \/ Did("up_failed")

\* C20: a run exits 0 only if the new release was found healthy (and, in
\* the release-directory script, promoted); a failed stage, build or
\* service start and a failed health check make it exit non-zero.
C20_ExitZeroOnlyWhenHealthy ==
  (script \in {"release", "partial", "remote"} /\ Exited) =>
    /\ (StepFailed \/ healthy = "no") => exitCode # 0
    /\ exitCode = 0 =>
         (healthy = "yes" /\ (script = "release" => promoted))

\* C18: the release directory a run stages is the directory of no other
\* release staged on the host, also when the other stage operation falls in
\* the same clock second.
C18_ReleaseDirUnique ==
  (script = "release" /\ releaseDir = "present") => RELEASE_DIR \notin others

\* C21: a probe counts as healthy exactly when the endpoint answered with a
\* 2xx status; a network error, a timeout and every other status count as
\* not yet healthy.
C21_HealthyExactly2xx ==
  (script \in {"release", "dev"} /\ resp # "none")
    => (okSeen <=> resp \in {"200", "204"})

C24_FailedPartialGoesStraightToRebuild ==
  (script = "partial" /\ Did("up_partial_failed")) =>
    /\ probes = 0 /\ waits = 0 /\ resp = "none" /\ healthy = "none"
    /\ FALLBACK_FULL = 1
    /\ pc \in {"p_fallback", "p_full_build", "p_full_up", "swap_remove",
               "done", "exit"}
    /\ \A k \in 1..(Len(trace) - 1) :
         trace[k] = "up_partial_failed" => trace[k + 1] = "down_rmi"
    /\ pc # "p_fallback" => fullRebuilds = 1

C24_Witness ==
  /\ script = "partial"
  /\ Did("up_partial_failed")
  /\ Did("down_rmi")
  /\ Exited
  /\ exitCode = 0

\* C25: a run of the partial-update script that succeeds through the
\* partial path has issued no command that stops, recreates or restarts
\* the dependent services.
C25_PartialLeavesDependentsAlone ==
  (script = "partial" /\ Exited /\ exitCode = 0 /\ fullRebuilds = 0)
    => ~depsTouched

C25_Witness ==
  /\ script = "partial"
  /\ Exited
  /\ exitCode = 0
  /\ fullRebuilds = 0
  /\ Did("up_partial")
  /\ healthy = "yes"
  /\ oldStopped

\* The run is at a build step.
AtBuild == pc \in {"r_build", "p_prune", "p_full_build", "f_build", "v_build"}

\* C26 as stated: on a host below the memory threshold the build of the
\* release-directory and remote scripts never starts with no swap active.
C26_LowMemoryBuildHasSwap ==
  (script \in {"release", "remote"} /\ MEM_MB < MinMemMB /\ AtBuild)
    => swapActive

\* C26 amended: swap provisioning of the bash scripts is best effort: on a
\* host below the threshold the build starts with /swapfile active, or, in
\* the release-directory and partial-update scripts, after the file was
\* allocated and mkswap or swapon failed; a failed allocation stops the run
\* before the build.
C26_BuildAfterSwapAttempt ==
  (script \in {"release", "partial", "full"} /\ MEM_MB < MinMemMB /\ AtBuild)
    => \/ swapActive
       \/ /\ script # "full"
          /\ Did("fallocate") \/ Did("dd")
          /\ CREATED_SWAP = 0
          /\ swapFile

C26_Witness ==
  /\ script = "release"
  /\ MEM_MB < MinMemMB
  /\ pc = "r_build"
  /\ ~swapActive
  /\ Did("fallocate")

\* C27: in the release-directory and partial-update scripts the block-copy
\* allocation (dd) runs only right after a failed fast allocation
\* (fallocate); CREATED_SWAP is 1 only if mkswap and swapon both succeeded;
\* a /swapfile found active is reused with CREATED_SWAP left 0.
C27_AllocationOrderAndOwnership ==
  script \in {"release", "partial"} =>
    /\ \A k \in 1..Len(trace) :
         trace[k] \in {"dd", "dd_failed"}
           => (k > 1 /\ trace[k - 1] = "fallocate_failed")
    /\ ~(Did("fallocate") /\ (Did("dd") \/ Did("dd_failed")))
    /\ CREATED_SWAP = 1 => (swapOns = 1 /\ Did("swapon") /\ SWAPFILE_PATH = "/swapfile")
    /\ preSwap.active => (CREATED_SWAP = 0 /\ swapOns = 0 /\ swapWrites = 0)

C27_Witness ==
  /\ script = "release"
  /\ pc = "r_down"
  /\ ~preSwap.file
  /\ Did("dd")
  /\ CREATED_SWAP = 1
  /\ swapActive

\* C28: a swapoff or rm of the swap file that fails changes nothing of the
\* deploy outcome: the release step leaves the exit status and the services
\* as they were and goes on to the same next step, and a run whose swap
\* release failed ends as the run whose release succeeded does (exit 0 in
\* the bash scripts, the report drawn from $buildExit in the remote script).
C28_SwapReleaseFailureHarmless ==
  /\ [][(SwapRemove \/ V_Finally)
          => /\ UNCHANGED <<exitCode, svcVars, dirVars, healthVars, orchVars,
                            psVars, depsTouched>>
             /\ pc' = (IF script = "remote" THEN "v_report" ELSE "done")]_vars
  /\ []((script \in {"release", "partial", "remote"} /\ Exited /\ Did("swapoff"))
          => /\ exitCode = 0
             /\ script = "remote"
                  => LastSteps(1) = <<IF buildExit = 0 THEN "report_success"
                                                       ELSE "report_failed">>)

C28_Witness ==
  /\ script = "release"
  /\ Exited
  /\ Did("swapoff")
  /\ swapActive
  /\ swapFile
  /\ exitCode = 0
  /\ newRunning

\* The full stop before the build (compose down --rmi all) was run and the
\* previous service is still up: the command failed.
DownFailed == Did("down_rmi") /\ oldRunning

PromotionFailed ==
  /\ healthy = "yes"
  /\ Exited
  /\ ~promoted \/ Did("chown_failed") \/ releaseDir = "present"

C31_NoSwapLeftAfterRuns ==
  (Exited /\ exitCode = 0) => (Did("swapoff") \/ ~swapActive)

\* ceil(t/2)
CeilHalf(t) == (t + 1) \div 2

\* C32: the health wait ends after a bounded number of probes.  Against an
\* endpoint that never succeeds the shell loop with timeout T has made
\* ceil(T/2)+1 probes and ELAPSED is 2*ceil(T/2) when it ends, and the dev
\* loop has made 30 probes; a wait that ends on a successful probe ends at
\* that probe (no probe follows a success), the k-th probe of at most
\* ceil(T/2)+1 (of at most 30 in the dev script), after k-1 sleeps.
C32_BoundedProbes ==
  /\ (script \in {"release", "partial"} /\ pc = "decide") =>
       IF okSeen
         THEN /\ probes \in 1..(CeilHalf(HEALTH_TIMEOUT) + 1)
              /\ ELAPSED = SleepSeconds * (probes - 1)
         ELSE /\ probes = CeilHalf(HEALTH_TIMEOUT) + 1
              /\ ELAPSED = SleepSeconds * CeilHalf(HEALTH_TIMEOUT)
  /\ (script \in {"release", "partial"} /\ pc = "sleep") =>
       (~okSeen /\ probes = ELAPSED \div SleepSeconds + 1)
  /\ (script = "dev" /\ pc = "d_result") =>
       IF healthOk
         THEN probes = i + 1 /\ probes \in 1..DevProbes
         ELSE probes = DevProbes /\ i = DevProbes
  /\ (script = "dev" /\ pc = "d_probe") => (~healthOk /\ probes = i)

\* a wait with an odd timeout that ran out against a failing endpoint
C32_Witness ==
  /\ script \in {"release", "partial"}
  /\ pc = "decide"
  /\ ~okSeen
  /\ HEALTH_TIMEOUT = 3
  /\ probes = 3
  /\ ELAPSED = 4

\* The run is past the upload part of the production script: it has exited
\* or is at the remote swap and build commands.
PastUpload == pc \in {"exit", "v_swap", "v_build", "v_finally", "v_report"}

\* C33: in the production upload script, when nginx.conf existed at the
\* start, then once the script has exited or gone on to the remote build,
\* by whichever path (configuration upload failed, a required directory
\* missing or not uploaded, or all uploads done), nginx.conf has the content
\* it had before the run and nginx.conf.backup is gone; and a run aborted by
\* a required directory ended with exit 1 with no remote swap or build
\* command issued.
C33_NginxRestored ==
  /\ (script = "remote" /\ nginxAtStart # "none" /\ PastUpload) =>
       (nginxConf = nginxAtStart /\ nginxBackup = "none")
  /\ (script = "remote" /\ uploadFailed = "required") =>
       /\ pc = "exit"
       /\ exitCode = 1
       /\ trace = <<>>
       /\ CREATED_SWAP = 0
       /\ swapWrites = 0
       /\ swapOns = 0
       /\ ~depsTouched
       /\ buildExit = -1

\* a run that put the SSL configuration in place over a stale backup and an
\* existing nginx.conf, and was aborted by a required directory after the
\* first one was uploaded
C33_Witness ==
  /\ script = "remote"
  /\ nginxAtStart = "orig"
  /\ uploadFailed = "required"
  /\ dirIndex > 1
  /\ nginxConf = "orig"
  /\ nginxBackup = "none"
  /\ pc = "exit"

\* C34: in the pricelist page, once every /api/pricelists request has been
\* answered and the latest one was answered with success, the list on
\* display is the one returned for the filter values now selected: the
\* answer to an older request does not replace the answer to a newer one.
C34_LatestFilterShown ==
  (mounted /\ inflight = {} /\ requests \in okIds) =>
    services = <<Shown([category |-> selectedCategory, search |-> searchTerm,
                        clinicId |-> selectedClinic,
                        hide |-> hideEmptyServices])>>

\* the patients of an answer
Returned == {apiRes.data[k] : k \in 1..Len(apiRes.data)}

\* C35: GET /api/patients: every patient returned is one the caller's clinic
\* filter admits, belongs to the requested clinic (as primary or visited
\* clinic) when clinicId is given, and matches the search term when search
\* is given; a search term does not lift the clinicId restriction.
C35_ReturnedWithinFilters ==
  apiReq.op = "GET" =>
    \A p \in Returned :
      /\ p.primaryClinic \in buildClinicFilter(user)
      /\ apiReq.clinicId # "" => InClinic(p, apiReq.clinicId)
      /\ apiReq.search # Empty => MatchesSearch(p, apiReq.search)

\* firstName, lastName and dateOfBirth are present in the body
FieldsPresent ==
  /\ apiReq.readable
  /\ apiReq.firstName # Empty
  /\ apiReq.lastName # Empty
  /\ apiReq.dateOfBirth # ""

\* the caller is an Admin, or the target primary clinic is the caller's
\* primary clinic or one of the caller's assigned clinics
CallerAllowed ==
  \/ user.role = "Admin"
  \/ TargetClinic(apiReq, user) = user.primaryClinic
  \/ TargetClinic(apiReq, user) \in user.assignedClinics

ServicesOf(c) == SelectSeq(services, LAMBDA sv : sv.category = c)

\* the columns a row of a table has a price cell for
ColumnsOf(row) == {row.prices[k].column : k \in DOMAIN row.prices}

\* The file holds, for the controls as they are now, the services of the
\* expanded categories and the checked price columns, no more and no less.
ExportMatches(file) ==
  /\ {file.tables[k].category : k \in DOMAIN file.tables}
       = {c \in expandedCategories : ServicesOf(c) # <<>>}
  /\ \A k \in DOMAIN file.tables :
       LET t == file.tables[k]
       IN /\ \A j \in DOMAIN file.tables : file.tables[j].category = t.category => j = k
          /\ Len(t.rows) = Len(ServicesOf(t.category))
          /\ \A r \in DOMAIN t.rows :
               /\ t.rows[r].serviceId = ServicesOf(t.category)[r].serviceId
               /\ ColumnsOf(t.rows[r]) = {c \in Range(PriceColumns) : visibleColumns[c]}
               /\ Len(t.rows[r].prices) = Cardinality(ColumnsOf(t.rows[r]))
               /\ \A p \in DOMAIN t.rows[r].prices :
                    t.rows[r].prices[p].amount =
                      ServicesOf(t.category)[r].pricing[t.rows[r].prices[p].column]
          /\ Range(t.headers) \ {"Service ID", "Service Name", "Status"}
               = {Label(file.kind, c) :
                    c \in {c \in Range(PriceColumns) : visibleColumns[c]}}
          /\ Len(t.headers) = 3 + Len(t.rows[1].prices)

\* C37: a PDF or Excel export made with the expand/collapse and column
\* controls as they are holds exactly the services of the expanded
\* categories and, for each service, exactly the checked price columns.
C37_ExportsWhatIsShown ==
  [][(exported' # exported /\ exported'.saved) => ExportMatches(exported')]_vars

\* an Excel file saved with Laboratory collapsed and one column unchecked
C37_Witness ==
  /\ exported.kind = "excel"
  /\ exported.saved
  /\ services = Catalogue
  /\ "Laboratory" \notin expandedCategories
  /\ "Consultation" \in expandedCategories
  /\ ~visibleColumns["tourist"]
  /\ visibleColumns["local"]
  /\ Len(exported.tables) = 1
  /\ Len(exported.tables[1].rows) = 2
  /\ Len(exported.tables[1].headers) = 6
====
